---- MODULE Spec2Model ----
(***************************************************************************)
(* Counseling dialogue system: the counselor's Revision Loop               *)
(* (CounselorAgent.generate_response), the session orchestrator            *)
(* (ConversationSession) and the dialogue history with its summarizer      *)
(* (DialogueManager / SummaryManager); the evaluator's parser, the batch    *)
(* runner and the LLM client, each on its own.                             *)
(*                                                                         *)
(* Specifications                                                          *)
(*   Spec         one call of get_next_response that runs a counselor      *)
(*                round, against an unrestricted remote service.           *)
(*   SpecSession  run_full_session on a freshly constructed session, in    *)
(*                both modes, against a remote service that departs from   *)
(*                its plain answer at most MaxNoise times.                 *)
(*   SpecReuse    SpecSession, with run_full_session called again on the   *)
(*                same session object.                                     *)
(*   SpecConfigured  run_full_session on a new ClientFirst session whose   *)
(*                ceiling the environment set high enough for summaries.   *)
(*   SpecSummarizer  add_message and get_summary_content called on a       *)
(*                history directly, in any order.                          *)
(*   SpecProjection  get_openai_messages on any history, for either        *)
(*                identity and mode.                                       *)
(*   SpecEvaluator   evaluate_response on any outcome of the reasoning     *)
(*                call.                                                    *)
(*   SpecBatch    process_patient_folder_concurrent, called MaxBatchRuns   *)
(*                times on one folder, the calls overlapping or not.       *)
(*   SpecClient   LLMClient.generate_response for any model, with the      *)
(*                remote service answering or failing at every call;       *)
(*                SpecClientFair adds that the calling thread keeps going. *)
(*   SpecCycle    Spec, with process_modification_cycle run on the         *)
(*                verdicts of every completed round.                       *)
(*   SpecSequential  process_patient_folder, called MaxBatchRuns times on  *)
(*                one folder, one call after the other.                    *)
(*   SpecCache    get, put and clear on a ReasoningCache, in any order.    *)
(*   SpecManager  create_session, end_session and cleanup_sessions on a    *)
(*                SessionManager, in any order.                            *)
(***************************************************************************)
EXTENDS Integers, Sequences, FiniteSets, TLC

\* ------------------------------------------------------------------ bounds
\* distinct texts the conversation model may return
MaxTexts == 2
\* distinct improvement suggestions the evaluator may return
MaxSuggestions == 2
\* departures of the remote service from its plain answer, per session
MaxNoise == 1
\* calls of run_full_session on one session object
MaxRuns == 3
\* the value the environment variable MAX_DIALOGUE_LENGTH configures
MaxConfiguredLength == 20
\* turns added to a history the summarizer is called on directly
MaxTurns == 26
\* entries of summary_history when the summarizer is called directly
MaxSummaries == 4
\* role projection: the length of the histories projected, and how many of
\* their turns carry a role that is neither party's
MaxHistory == 10
MaxOtherRoles == 1
\* batch processing: the files of the folder, and the batch runs over it
MaxFiles == 2
MaxBatchRuns == 2
\* LLM client: the remote calls and pauses kept in the histories
MaxCalls == 5
\* ReasoningCache: the distinct keys, the largest max_size, the operations
MaxKeys == 3
MaxCacheSize == 2
MaxCacheOps == 5
\* SessionManager: the distinct session ids, the length of active_sessions
MaxSessionIds == 3
MaxActive == 3

\* ------------------------------------------------- configuration (config.py)
MAX_DIALOGUE_LENGTH == 4
DOCTOR_PATIENT_MAX_LENGTH == 50
SUMMARY_START_SIZE == 13
SUMMARY_BUFFER_SIZE == 6
MAX_MODIFICATION_ATTEMPTS == 3
MAX_RETRIES == 3
RETRY_DELAY == 1
\* the pause of _handle_reasoning_request after a failed call
REASONING_RETRY_SLEEP == 1

PATIENT_FIRST == "patient-first"
DOCTOR_FIRST == "doctor-first"
Modes == {PATIENT_FIRST, DOCTOR_FIRST}

\* role strings of ConversationTurn.role
COUNSELOR == "counselor"
PATIENT == "patient"

\* --------------------------------------------------------------------- texts
\* A text is <<kind, n>>.  "text" and "text_goodbye" are texts returned by
\* the conversation model; a "text_goodbye" text contains the termination
\* phrase.  The other kinds are the fixed strings of the program.
Text(n) == <<"text", n>>
GoodbyeText(n) == <<"text_goodbye", n>>
EMPTY == <<"empty", 0>>
COUNSELOR_APOLOGY == <<"counselor_apology", 0>>
PATIENT_FALLBACK == <<"patient_fallback", 0>>
COUNSELOR_GREETING == <<"counselor_greeting", 0>>
GENERAL_OPENING == <<"general_opening", 0>>

\* a failed remote call (LLMClientError)
TransportError == <<"transport_error", 0>>

\* the sub-string test  "再见" in content
HasGoodbye(content) == content[1] = "text_goodbye"

\* the sub-string test  "是" in result.conclusion
AFFIRMATIVE == "shi"
NEGATIVE == "fou"
NEITHER == "neither"
Conclusions == {AFFIRMATIVE, NEGATIVE, NEITHER}
IsAffirmative(conclusion) == conclusion = AFFIRMATIVE

Suggestion(n) == <<"suggestion", n>>
EVALUATION_ERROR == <<"evaluation_error", 0>>

\* ReasoningResult (the fields the session reads)
ReasoningResult(c, s, v) ==
    [conclusion |-> c, improvement_suggestion |-> s, is_valid |-> v]

\* the result evaluate_response builds when the evaluation call raised
ErrorResult == ReasoningResult(NEGATIVE, EVALUATION_ERROR, FALSE)

NoResponse == [content |-> EMPTY, metadata |-> "none", has_reasoning |-> FALSE,
               original_response |-> EMPTY, reasoning_history |-> <<>>,
               modification_history |-> <<>>]

VARIABLES
    mode,                   \* DialogueManager.mode
    turns,                  \* DialogueHistory.turns
    current_summary,        \* DialogueHistory.current_summary
    summary_history,        \* DialogueHistory.summary_history
    session_data,           \* ConversationSession.session_data
    current_counselor_round,\* ConversationSession.current_counselor_round
    pc,                     \* position of the session's (single) thread
    content,                \* generate_response: context from the summarizer
    modification_history,   \* generate_response: local list
    reasoning_history,      \* generate_response: local list
    revising_flag,          \* generate_response: attempt counter
    original_response,      \* generate_response: attempt-0 draft
    current_response,       \* generate_response: draft under review
    modification_suggestion,\* CounselorAgent.modification_suggestion
    agent_response,         \* the AgentResponse get_next_response received
    max_modification_attempts, \* config.system.MAX_MODIFICATION_ATTEMPTS
    max_dialogue_length,    \* config.system.MAX_DIALOGUE_LENGTH
    summarized_at,          \* history: the turn count at which each entry of
                            \* summary_history was generated
    consulted_n,            \* history: the turn count at the last call of
                            \* execute_summary (-1 before the first)
    drafts,                 \* history: the drafts generated in this round
    runs,                   \* calls of run_full_session so far
    noise,                  \* departures of the remote service so far
    identity,               \* get_openai_messages: the requesting identity
    messages,               \* get_openai_messages: the list it returned
    reasoning_output,       \* evaluate_response: what generate_reasoning did
    reasoning_result,       \* evaluate_response: the ReasoningResult returned
    processed_files,        \* ProcessingLog.processed_files
    processing_lock,        \* CounselingSystemApp._processing_lock: its holder
    file_state,             \* position of each batch run on each file
    sessions_run,           \* history: sessions run for each file
    request,                \* generate_response: its arguments
    request_pc,             \* position of the thread inside the LLM client
    attempt,                \* _make_request_with_retry: loop index
    retry_delay,            \* _make_request_with_retry: next delay
    completion,             \* what the client call returned or raised
    remote_calls,           \* history: the outcomes of the remote calls
    sleeps,                 \* history: the delays slept, in order
    succeeded,              \* history: the files whose session ran without error
    cycle,                  \* what process_modification_cycle returned
    cache,                  \* ReasoningCache.cache: key -> cached result
    access_order,           \* ReasoningCache.access_order
    max_size,               \* ReasoningCache.max_size
    last_use,               \* history: when each key was last hit or written
    cache_clock,            \* history: the number of cache operations so far
    sessions,               \* SessionManager.sessions: id -> session
    active_sessions         \* SessionManager.active_sessions

vars == <<mode, turns, current_summary, summary_history, session_data,
          current_counselor_round, pc, content, modification_history,
          reasoning_history, revising_flag, original_response,
          current_response, modification_suggestion, agent_response,
          max_modification_attempts, max_dialogue_length, summarized_at,
          consulted_n, drafts, runs, noise, identity, messages,
          reasoning_output, reasoning_result, processed_files,
          processing_lock, file_state, sessions_run, request, request_pc, attempt,
          retry_delay, completion, remote_calls, sleeps, succeeded, cycle,
          cache, access_order, max_size, last_use, cache_clock, sessions,
          active_sessions>>

summary_vars == <<current_summary, summary_history, summarized_at, consulted_n>>
history_vars == <<turns, summary_vars>>
config_vars == <<max_modification_attempts, max_dialogue_length>>
loop_vars == <<content, modification_history, reasoning_history, revising_flag,
               original_response, current_response, modification_suggestion,
               drafts>>
projection_vars == <<identity, messages>>
evaluator_vars == <<reasoning_output, reasoning_result>>
\* the variables of the units that are exercised on their own
batch_vars == <<processed_files, processing_lock, file_state, sessions_run,
                succeeded>>
client_vars == <<request, request_pc, attempt, retry_delay, completion, remote_calls,
                 sleeps>>
cycle_vars == <<cycle>>
cache_vars == <<cache, access_order, max_size, last_use, cache_clock>>
manager_vars == <<sessions, active_sessions>>
service_vars == <<cycle_vars, cache_vars, manager_vars>>
unit_vars == <<projection_vars, evaluator_vars, batch_vars, client_vars,
               service_vars>>
\* the variables of a session
session_vars == <<mode, history_vars, session_data, current_counselor_round,
                  pc, loop_vars, agent_response, config_vars, runs, noise>>

\* --------------------------------------------------------- remote service
\* What the remote model service may answer.  For each kind of call the
\* answers are split into plain ones and departures; a metered service
\* departs at most MaxNoise times in a session.
RoundEnv ==
    [metered |-> FALSE,
     drafts |-> {Text(n) : n \in 1..MaxTexts},
     draft_departures |-> {TransportError},
     replies |-> {Text(n) : n \in 1..MaxTexts},
     reply_departures |-> {TransportError},
     verdicts |-> {ReasoningResult(c, Suggestion(1), TRUE) : c \in Conclusions}
                  \cup {ReasoningResult(NEGATIVE, Suggestion(n), TRUE) :
                           n \in 1..MaxSuggestions},
     verdict_departures |-> {ErrorResult},
     rewrites |-> {Text(n) : n \in 1..MaxTexts}]

SessionEnv ==
    [metered |-> TRUE,
     drafts |-> {Text(1), GoodbyeText(1)},
     draft_departures |-> {TransportError},
     replies |-> {Text(1)},
     reply_departures |-> {GoodbyeText(1), TransportError},
     verdicts |-> {ReasoningResult(AFFIRMATIVE, Suggestion(1), TRUE)},
     verdict_departures |->
        {ReasoningResult(NEGATIVE, Suggestion(n), TRUE) : n \in 1..MaxSuggestions}
        \cup {ReasoningResult(NEITHER, Suggestion(1), TRUE), ErrorResult},
     rewrites |-> {Text(2), GoodbyeText(1)}]

Answers(E, plain, departures) ==
    IF E.metered /\ noise >= MaxNoise THEN plain ELSE plain \cup departures

Metered(E, answer, plain) ==
    noise' = IF E.metered /\ answer \notin plain THEN noise + 1 ELSE noise

\* ------------------------------------------------------- dialogue history
Last(s) == s[Len(s)]

ConversationTurn(r, c, m) == [role |-> r, content |-> c, metadata |-> m]

\* DialogueHistory.add_turn
add_turn(ts, r, c, m) == Append(ts, ConversationTurn(r, c, m))

\* DialogueHistory.to_dict_format: [{role: content}, ...]
DictEntry(r, c) == [role |-> r, content |-> c]
to_dict_format(ts) == [i \in 1..Len(ts) |-> DictEntry(ts[i].role, ts[i].content)]

\* DialogueManager.contains_goodbye
contains_goodbye_any_role(ts) ==
    ts # <<>> /\ HasGoodbye(Last(ts).content)
contains_goodbye(ts) ==
    ts # <<>> /\ Last(ts).role = COUNSELOR /\ HasGoodbye(Last(ts).content)

\* DialogueManager.should_end_conversation
Ceiling(m) == IF m = DOCTOR_FIRST THEN DOCTOR_PATIENT_MAX_LENGTH
                                  ELSE max_dialogue_length
should_end_conversation_off_by_one(m, ts) == Len(ts) > Ceiling(m)
should_end_conversation(m, ts) == Len(ts) >= Ceiling(m)

\* ConversationSession.should_end_session
should_end_session(m, ts) ==
    contains_goodbye(ts) \/ should_end_conversation(m, ts)

\* ------------------------------------------------------------- summarizer
Summary(n) == <<"summary", n>>
SUMMARY_FAILED == <<"summary_failed", 0>>

\* SummaryManager.should_summarize
should_summarize_every_buffer(n) ==
    n >= SUMMARY_START_SIZE /\ n % SUMMARY_BUFFER_SIZE = 0
should_summarize(n) ==
    IF n = SUMMARY_START_SIZE THEN TRUE
    ELSE IF n > SUMMARY_START_SIZE
         THEN (n - SUMMARY_START_SIZE) % SUMMARY_BUFFER_SIZE = 0
         ELSE FALSE

\* the context execute_summary returns: a summary text (EMPTY when the raw
\* history is used) and the turns serialized after it
Context(s, window) == [summary |-> s, window |-> window]

\* python slice  seq[start:]  (start is 0-based)
SliceFrom(s, start) ==
    IF start >= Len(s) THEN <<>> ELSE SubSeq(s, start + 1, Len(s))

start_index_one_earlier(n) ==
    SUMMARY_BUFFER_SIZE * ((n - 1) \div SUMMARY_BUFFER_SIZE)
start_index(n) == SUMMARY_BUFFER_SIZE * ((n - 1) \div SUMMARY_BUFFER_SIZE) + 1

\* SummaryManager.execute_summary; generated is what generate_summary returns
\* when it is called.  <<content, current_summary', summary_history'>>
execute_summary_from_first_buffer(ts, cur, hist, generated) ==
    LET n == Len(ts) IN
    IF n < SUMMARY_BUFFER_SIZE
    THEN <<Context(EMPTY, to_dict_format(ts)), cur, hist>>
    ELSE IF n % SUMMARY_BUFFER_SIZE = 0
    THEN <<Context(generated, <<>>), generated, Append(hist, generated)>>
    ELSE IF cur # EMPTY
    THEN <<Context(cur, to_dict_format(SliceFrom(ts, start_index(n)))), cur, hist>>
    ELSE <<Context(EMPTY, to_dict_format(ts)), cur, hist>>
execute_summary_keeps_latest(ts, cur, hist, generated) ==
    LET n == Len(ts) IN
    IF n < SUMMARY_START_SIZE
    THEN <<Context(EMPTY, to_dict_format(ts)), cur, hist>>
    ELSE IF should_summarize(n)
    THEN <<Context(generated, <<>>), generated, <<generated>>>>
    ELSE IF cur # EMPTY
    THEN <<Context(cur, to_dict_format(SliceFrom(ts, start_index(n)))), cur, hist>>
    ELSE <<Context(EMPTY, to_dict_format(ts)), cur, hist>>
execute_summary(ts, cur, hist, generated) ==
    LET n == Len(ts) IN
    IF n < SUMMARY_START_SIZE
    THEN <<Context(EMPTY, to_dict_format(ts)), cur, hist>>
    ELSE IF should_summarize(n)
    THEN <<Context(generated, <<>>), generated, Append(hist, generated)>>
    ELSE IF cur # EMPTY
    THEN <<Context(cur, to_dict_format(SliceFrom(ts, start_index(n)))), cur, hist>>
    ELSE <<Context(EMPTY, to_dict_format(ts)), cur, hist>>

\* the texts generate_summary may return at turn count n
Summaries(E, n) ==
    IF n >= SUMMARY_START_SIZE /\ should_summarize(n)
    THEN Answers(E, {Summary(n)}, {SUMMARY_FAILED})
    ELSE {EMPTY}

\* DialogueManager.get_summary_content: one call of execute_summary on the
\* history, its result kept as the caller's content
get_summary_content(E) ==
    \E generated \in Summaries(E, Len(turns)) :
       LET r == execute_summary(turns, current_summary, summary_history, generated)
       IN /\ content' = r[1]
          /\ current_summary' = r[2]
          /\ summary_history' = r[3]
          /\ summarized_at' = IF r[3] = summary_history THEN summarized_at
                               ELSE Append(summarized_at, Len(turns))
          /\ consulted_n' = Len(turns)
          /\ Metered(E, generated, {EMPTY, Summary(Len(turns))})

\* ---------------------------------------------------------- Revision Loop
\* ModificationRecord (reasoning_result is the result the suggestion is from)
ModificationRecord_zero_based(k, draft, result) ==
    [attempt_number |-> k - 1, original_content |-> draft,
     improvement_suggestion |-> result.improvement_suggestion,
     reasoning_result |-> result]
ModificationRecord(k, draft, result) ==
    [attempt_number |-> k, original_content |-> draft,
     improvement_suggestion |-> result.improvement_suggestion,
     reasoning_result |-> result]

\* ReasoningEngine.create_modification_prompt: the requests, the last one
\* labelled as the current request, and the response to modify
PromptItem(i, n, record) ==
    [label |-> IF i = n THEN <<"current_request", 0>> ELSE <<"request", i>>,
     suggestion |-> record.improvement_suggestion]
NO_PROMPT == [items |-> <<>>, response |-> EMPTY]
create_modification_prompt(modify_history, response) ==
    IF modify_history = <<>> THEN NO_PROMPT
    ELSE [items |-> [i \in 1..Len(modify_history) |->
                        PromptItem(i, Len(modify_history), modify_history[i])],
          response |-> response]

\* the exit test of the loop (agents.py line 157)
loop_exits_cap_off_by_one(result, flag) ==
    IsAffirmative(result.conclusion) \/ flag > max_modification_attempts
loop_exits(result, flag) ==
    IsAffirmative(result.conclusion) \/ flag >= max_modification_attempts

\* the AgentResponse of a completed loop (agents.py lines 200-235)
ReasoningEntry(r) == [conclusion |-> r.conclusion,
                      improvement_suggestion |-> r.improvement_suggestion]
ModificationEntry(m) == [attempt_number |-> m.attempt_number,
                         improvement_suggestion |-> m.improvement_suggestion]
LoopResponse_returns_original(final, original, rh, mh) ==
    [content |-> original, metadata |-> "meta", has_reasoning |-> TRUE,
     original_response |-> original,
     reasoning_history |-> [i \in 1..Len(rh) |-> ReasoningEntry(rh[i])],
     modification_history |-> [i \in 1..Len(mh) |-> ModificationEntry(mh[i])]]
LoopResponse(final, original, rh, mh) ==
    [content |-> final, metadata |-> "meta", has_reasoning |-> TRUE,
     original_response |-> original,
     reasoning_history |-> [i \in 1..Len(rh) |-> ReasoningEntry(rh[i])],
     modification_history |-> [i \in 1..Len(mh) |-> ModificationEntry(mh[i])]]

\* the AgentResponse of the except branch (agents.py lines 237-242)
ErrorResponse_without_error(fallback) ==
    [content |-> fallback, metadata |-> "meta", has_reasoning |-> FALSE,
     original_response |-> EMPTY, reasoning_history |-> <<>>,
     modification_history |-> <<>>]
ErrorResponse(fallback) ==
    [content |-> fallback, metadata |-> "error", has_reasoning |-> FALSE,
     original_response |-> EMPTY, reasoning_history |-> <<>>,
     modification_history |-> <<>>]

\* get_next_response, counselor branch, up to the first draft request:
\* the round counter, the summarizer and the loop's local lists
CounselorRoundBegin(E) ==
    /\ pc = "gnr"
    /\ turns # <<>>
    /\ Last(turns).role = PATIENT
    /\ current_counselor_round' = current_counselor_round + 1
    /\ get_summary_content(E)
    /\ modification_history' = <<>>
    /\ reasoning_history' = <<>>
    /\ revising_flag' = 0
    /\ original_response' = EMPTY
    /\ current_response' = EMPTY
    /\ drafts' = <<>>
    /\ pc' = "gr_original"
    /\ UNCHANGED <<mode, turns, session_data, modification_suggestion,
                   agent_response, config_vars, unit_vars, runs>>

\* the attempt-0 draft (agents.py lines 125-126); a failed call leaves the
\* loop through the except branch
GenerateOriginal(E) ==
    /\ pc = "gr_original"
    /\ \E draft \in Answers(E, E.drafts, E.draft_departures) :
          /\ Metered(E, draft, E.drafts)
          /\ IF draft = TransportError
             THEN /\ agent_response' = ErrorResponse(COUNSELOR_APOLOGY)
                  /\ pc' = "gnr_store"
                  /\ UNCHANGED <<original_response, current_response, drafts>>
             ELSE /\ original_response' = draft
                  /\ current_response' = draft
                  /\ drafts' = Append(drafts, draft)
                  /\ pc' = "gr_evaluate"
                  /\ UNCHANGED agent_response
    /\ UNCHANGED <<mode, history_vars, session_data, current_counselor_round,
                   content, modification_history, reasoning_history,
                   revising_flag, modification_suggestion,
                   config_vars, unit_vars, runs>>

\* one evaluation of the draft under review (agents.py lines 131-154)
Evaluate(E) ==
    /\ pc = "gr_evaluate"
    /\ \E result \in Answers(E, E.verdicts, E.verdict_departures) :
          /\ Metered(E, result, E.verdicts)
          /\ reasoning_history' = Append(reasoning_history, result)
    /\ pc' = "gr_decide"
    /\ UNCHANGED <<mode, history_vars, session_data, current_counselor_round,
                   content, modification_history, revising_flag,
                   original_response, current_response, drafts,
                   modification_suggestion, agent_response,
                   config_vars, unit_vars, runs>>

\* CounselorResponseEnhancer.enhance_response: the rewritten sentence, or
\* the sentence itself when the rewrite call failed
Enhanced(E, response) == {response} \cup Answers(E, {}, E.rewrites)

\* the loop ends (agents.py lines 157-169 and 195-235)
AcceptResponse(E) ==
    /\ pc = "gr_decide"
    /\ loop_exits(Last(reasoning_history), revising_flag)
    /\ \E final \in Enhanced(E, current_response) :
          /\ Metered(E, final, {current_response})
          /\ current_response' = final
          /\ agent_response' = LoopResponse(final, original_response,
                                            reasoning_history, modification_history)
    /\ modification_suggestion' = NO_PROMPT
    /\ pc' = "gnr_store"
    /\ UNCHANGED <<mode, history_vars, session_data, current_counselor_round,
                   content, modification_history, reasoning_history,
                   revising_flag, original_response, drafts,
                   config_vars, unit_vars, runs>>

\* the loop goes round (agents.py lines 171-193): the record, the prompt and
\* the regenerated draft; a failed call leaves through the except branch
ReviseResponse(E) ==
    /\ pc = "gr_decide"
    /\ ~loop_exits(Last(reasoning_history), revising_flag)
    /\ LET record == ModificationRecord(revising_flag + 1, current_response,
                                        Last(reasoning_history))
           records == Append(modification_history, record)
       IN /\ modification_history' = records
          /\ modification_suggestion' =
                create_modification_prompt(records, current_response)
    /\ \E draft \in Answers(E, E.drafts, E.draft_departures) :
          /\ Metered(E, draft, E.drafts)
          /\ IF draft = TransportError
             THEN /\ agent_response' = ErrorResponse(COUNSELOR_APOLOGY)
                  /\ pc' = "gnr_store"
                  /\ UNCHANGED <<current_response, revising_flag, drafts>>
             ELSE /\ current_response' = draft
                  /\ revising_flag' = revising_flag + 1
                  /\ drafts' = Append(drafts, draft)
                  /\ pc' = "gr_evaluate"
                  /\ UNCHANGED agent_response
    /\ UNCHANGED <<mode, history_vars, session_data, current_counselor_round,
                   content, reasoning_history, original_response,
                   config_vars, unit_vars, runs>>

\* ---------------------------------------------------- session orchestrator
\* ConversationSession.start_session
start_session(m, ts) ==
    IF m = DOCTOR_FIRST THEN add_turn(ts, COUNSELOR, COUNSELOR_GREETING, "none")
                        ELSE add_turn(ts, PATIENT, GENERAL_OPENING, "none")

\* the audit record of one counselor round (agents.py lines 359-364)
RoundData(round, response) ==
    [round |-> round,
     original_counselor_response |-> response.original_response,
     final_counselor_response |-> response.content,
     reasoning_history |-> response.reasoning_history]

\* session_data after a counselor response (agents.py lines 335-372)
store_reasoning_data_revised_only(sd, round, response, last_message) ==
    IF ~response.has_reasoning THEN sd
    ELSE [sd EXCEPT
          !.reasoning_history_by_round =
              IF response.modification_history # <<>>
              THEN Append(@, RoundData(round, response)) ELSE @,
          !.reasoning_history = @ \o response.reasoning_history,
          !.modification_history = @ \o response.modification_history]
store_reasoning_data_without_flat_attempts(sd, round, response, last_message) ==
    IF ~response.has_reasoning THEN sd
    ELSE [sd EXCEPT
            !.original_dialogue_history =
                IF response.original_response # EMPTY
                THEN Append(@, DictEntry(COUNSELOR, response.original_response))
                ELSE @,
            !.reasoning_history_by_round = Append(@, RoundData(round, response)),
            !.reasoning_history = @ \o response.reasoning_history]
store_reasoning_data(sd, round, response, last_message) ==
    IF ~response.has_reasoning THEN sd
    ELSE
    LET oh == sd.original_dialogue_history
        patient_missing ==
            /\ last_message.role = PATIENT
            /\ \/ oh = <<>>
               \/ Last(oh) # DictEntry(PATIENT, last_message.content)
        oh1 == IF patient_missing
               THEN Append(oh, DictEntry(PATIENT, last_message.content)) ELSE oh
        oh2 == IF response.original_response # EMPTY
               THEN Append(oh1, DictEntry(COUNSELOR, response.original_response))
               ELSE oh
    IN [sd EXCEPT
          !.original_dialogue_history = oh2,
          !.reasoning_history_by_round =
              IF response.reasoning_history # <<>>
              THEN Append(@, RoundData(round, response)) ELSE @,
          !.reasoning_history = @ \o response.reasoning_history,
          !.modification_history = @ \o response.modification_history]

\* get_next_response, counselor branch, after generate_response returned:
\* the audit trail and the committed turn (agents.py lines 332-387)
StoreAndAddMessage ==
    /\ pc = "gnr_store"
    /\ session_data' = store_reasoning_data(session_data, current_counselor_round,
                                            agent_response, Last(turns))
    /\ turns' = add_turn(turns, COUNSELOR, agent_response.content,
                         agent_response.metadata)
    /\ pc' = "rfs_loop"
    /\ UNCHANGED <<mode, summary_vars,
                   current_counselor_round, loop_vars, agent_response,
                   config_vars, unit_vars, runs, noise>>

\* get_next_response, client branch (agents.py lines 374-387) with
\* PatientAgent.generate_response (lines 61-92)
PatientTurn_aborts_on_error(E) ==
    /\ pc = "gnr"
    /\ turns # <<>>
    /\ Last(turns).role # PATIENT
    /\ \E reply \in Answers(E, E.replies, E.reply_departures) :
          /\ Metered(E, reply, E.replies)
          /\ IF reply = TransportError
             THEN /\ agent_response' = ErrorResponse(EMPTY)
                  /\ pc' = "returned"
                  /\ UNCHANGED <<session_data, turns>>
             ELSE /\ agent_response' = [NoResponse EXCEPT !.content = reply,
                                                          !.metadata = "meta"]
                  /\ session_data' =
                        [session_data EXCEPT !.original_dialogue_history =
                            Append(@, DictEntry(PATIENT, reply))]
                  /\ turns' = add_turn(turns, PATIENT, reply, "meta")
                  /\ pc' = "rfs_loop"
    /\ UNCHANGED <<mode, summary_vars, current_counselor_round, loop_vars,
                   config_vars, unit_vars, runs>>
PatientTurn(E) ==
    /\ pc = "gnr"
    /\ turns # <<>>
    /\ Last(turns).role # PATIENT
    /\ \E reply \in Answers(E, E.replies, E.reply_departures) :
          LET response == IF reply = TransportError
                          THEN ErrorResponse(PATIENT_FALLBACK)
                          ELSE [NoResponse EXCEPT !.content = reply,
                                                  !.metadata = "meta"]
          IN /\ Metered(E, reply, E.replies)
             /\ agent_response' = response
             /\ session_data' =
                   [session_data EXCEPT !.original_dialogue_history =
                       Append(@, DictEntry(PATIENT, response.content))]
             /\ turns' = add_turn(turns, PATIENT, response.content,
                                  response.metadata)
    /\ pc' = "rfs_loop"
    /\ UNCHANGED <<mode, summary_vars,
                   current_counselor_round, loop_vars,
                   config_vars, unit_vars, runs>>

\* get_next_response on an empty history (agents.py lines 318-324)
OpeningTurn ==
    /\ pc = "gnr"
    /\ turns = <<>>
    /\ turns' = start_session(mode, turns)
    /\ agent_response' = [NoResponse EXCEPT !.content = Last(turns').content]
    /\ pc' = "rfs_loop"
    /\ UNCHANGED <<mode, summary_vars, session_data,
                   current_counselor_round, loop_vars,
                   config_vars, unit_vars, runs, noise>>

\* run_full_session is called (agents.py lines 405-411)
RunFullSession(limit) ==
    /\ pc \in {"idle", "returned"}
    /\ runs < limit
    /\ runs' = runs + 1
    /\ turns' = IF mode = PATIENT_FIRST THEN start_session(mode, turns) ELSE turns
    /\ pc' = "rfs_loop"
    /\ UNCHANGED <<mode, summary_vars, session_data,
                   current_counselor_round, loop_vars, agent_response,
                   config_vars, unit_vars, noise>>

\* the loop test of run_full_session (agents.py lines 414 and 422): the
\* next response is requested, or the loop is left and the call returns
LoopTest ==
    /\ pc = "rfs_loop"
    /\ pc' = IF should_end_session(mode, turns) THEN "returned" ELSE "gnr"
    /\ UNCHANGED <<mode, history_vars, session_data, current_counselor_round,
                   loop_vars, agent_response,
                   config_vars, unit_vars, runs, noise>>

\* ------------------------------------------------------------ initial states
\* no projection was requested yet
NO_IDENTITY == "none"
ProjectionAtRest == identity = NO_IDENTITY /\ messages = <<>>

\* no evaluation was requested yet
NOT_CALLED == [kind |-> "not_called"]
EvaluatorAtRest == reasoning_output = NOT_CALLED /\ reasoning_result = NOT_CALLED

\* the input files of a batch folder, and the batch runs over it
Files == 1..MaxFiles
BatchRuns == 1..MaxBatchRuns
Workers == BatchRuns \X Files
FREE == <<0, 0>>
\* no batch run has listed the folder, and the ledger is empty
BatchAtRest ==
    /\ processed_files = {}
    /\ processing_lock = FREE
    /\ file_state = [w \in Workers |-> "unlisted"]
    /\ sessions_run = [f \in Files |-> 0]
    /\ succeeded = {}

\* no request was made of the client
NO_REQUEST == [model |-> "none", return_reasoning |-> FALSE,
               available |-> FALSE]
NO_COMPLETION == [kind |-> "none", content |-> EMPTY]
ClientAtRest ==
    /\ request = NO_REQUEST
    /\ request_pc = "idle"
    /\ attempt = 0
    /\ retry_delay = 0
    /\ completion = NO_COMPLETION
    /\ remote_calls = <<>>
    /\ sleeps = <<>>

\* process_modification_cycle was not called
CycleAtRest == cycle = NOT_CALLED

\* the module-level cache of reasoning_engine.py, as constructed
Keys == 1..MaxKeys
NO_ENTRY == [kind |-> "no_entry"]
DEFAULT_MAX_SIZE == 100
CacheAtRest ==
    /\ cache = [k \in Keys |-> NO_ENTRY]
    /\ access_order = <<>>
    /\ max_size = DEFAULT_MAX_SIZE
    /\ last_use = [k \in Keys |-> 0]
    /\ cache_clock = 0

\* SessionManager.__init__ (agents.py lines 479-481)
SessionIds == 1..MaxSessionIds
NO_SESSION == [kind |-> "no_session"]
ManagerAtRest ==
    /\ sessions = [id \in SessionIds |-> NO_SESSION]
    /\ active_sessions = <<>>

ServicesAtRest == CycleAtRest /\ CacheAtRest /\ ManagerAtRest

UnitsAtRest ==
    /\ ProjectionAtRest /\ EvaluatorAtRest /\ BatchAtRest /\ ClientAtRest
    /\ ServicesAtRest

\* ConversationSession.__init__ (agents.py lines 272-291)
NewSessionData ==
    [reasoning_history_by_round |-> <<>>, reasoning_history |-> <<>>,
     modification_history |-> <<>>, summary_history |-> <<>>,
     original_dialogue_history |-> <<>>]

NewSession ==
    /\ mode \in Modes
    /\ turns = <<>>
    /\ current_summary = EMPTY
    /\ summary_history = <<>>
    /\ summarized_at = <<>>
    /\ consulted_n = -1
    /\ session_data = NewSessionData
    /\ current_counselor_round = 0
    /\ content = Context(EMPTY, <<>>)
    /\ modification_history = <<>>
    /\ reasoning_history = <<>>
    /\ revising_flag = 0
    /\ original_response = EMPTY
    /\ current_response = EMPTY
    /\ modification_suggestion = NO_PROMPT
    /\ agent_response = NoResponse
    /\ drafts = <<>>
    /\ noise = 0

\* a freshly constructed session, under the configuration of config.py
SessionAtRest ==
    /\ NewSession
    /\ max_modification_attempts = MAX_MODIFICATION_ATTEMPTS
    /\ max_dialogue_length = MAX_DIALOGUE_LENGTH
    /\ pc = "idle"
    /\ runs = 0

InitSession == SessionAtRest /\ UnitsAtRest

\* the attempt caps a round is run under: the small ones and the configured
Caps == {1, 2, MAX_MODIFICATION_ATTEMPTS}

\* a session inside run_full_session, about to request its first counselor
\* response: after the client's opening (ClientFirst), or after the
\* counselor's greeting and the client's first reply (CounselorFirst)
Init ==
    /\ mode \in Modes
    /\ max_modification_attempts \in Caps
    /\ max_dialogue_length = MAX_DIALOGUE_LENGTH
    /\ summarized_at = <<>>
    /\ consulted_n = -1
    /\ \E reply \in {Text(1), PATIENT_FALLBACK} :
          /\ turns =
                IF mode = PATIENT_FIRST
                THEN start_session(mode, <<>>)
                ELSE add_turn(start_session(mode, <<>>), PATIENT, reply,
                              IF reply = PATIENT_FALLBACK THEN "error" ELSE "meta")
          /\ session_data =
                IF mode = PATIENT_FIRST THEN NewSessionData
                ELSE [NewSessionData EXCEPT !.original_dialogue_history =
                         <<DictEntry(PATIENT, reply)>>]
          /\ agent_response =
                IF mode = PATIENT_FIRST THEN NoResponse
                ELSE IF reply = PATIENT_FALLBACK
                THEN ErrorResponse(PATIENT_FALLBACK)
                ELSE [NoResponse EXCEPT !.content = reply, !.metadata = "meta"]
    /\ current_summary = EMPTY
    /\ summary_history = <<>>
    /\ current_counselor_round = 0
    /\ content = Context(EMPTY, <<>>)
    /\ modification_history = <<>>
    /\ reasoning_history = <<>>
    /\ revising_flag = 0
    /\ original_response = EMPTY
    /\ current_response = EMPTY
    /\ modification_suggestion = NO_PROMPT
    /\ drafts = <<>>
    /\ noise = 0
    /\ pc = "gnr"
    /\ runs = 1
    /\ UnitsAtRest

\* ------------------------------------------------------------ specifications
Next ==
    \/ CounselorRoundBegin(RoundEnv)
    \/ GenerateOriginal(RoundEnv)
    \/ Evaluate(RoundEnv)
    \/ AcceptResponse(RoundEnv)
    \/ ReviseResponse(RoundEnv)
    \/ StoreAndAddMessage

Spec == Init /\ [][Next]_vars

NextSession ==
    \/ RunFullSession(1)
    \/ LoopTest
    \/ OpeningTurn
    \/ PatientTurn(SessionEnv)
    \/ CounselorRoundBegin(SessionEnv)
    \/ GenerateOriginal(SessionEnv)
    \/ Evaluate(SessionEnv)
    \/ AcceptResponse(SessionEnv)
    \/ ReviseResponse(SessionEnv)
    \/ StoreAndAddMessage

SpecSession == InitSession /\ [][NextSession]_vars

NextReuse ==
    \/ RunFullSession(MaxRuns)
    \/ LoopTest
    \/ OpeningTurn
    \/ PatientTurn(SessionEnv)
    \/ CounselorRoundBegin(SessionEnv)
    \/ GenerateOriginal(SessionEnv)
    \/ Evaluate(SessionEnv)
    \/ AcceptResponse(SessionEnv)
    \/ ReviseResponse(SessionEnv)
    \/ StoreAndAddMessage

SpecReuse == InitSession /\ [][NextReuse]_vars

\* run_full_session on a new ClientFirst session whose ceiling was set from
\* the environment (config.py line 96), long enough for the summarizer
InitConfigured ==
    /\ NewSession
    /\ UnitsAtRest
    /\ mode = PATIENT_FIRST
    /\ max_modification_attempts = MAX_MODIFICATION_ATTEMPTS
    /\ max_dialogue_length = MaxConfiguredLength
    /\ pc = "idle"
    /\ runs = 0

\* the history is never empty when get_next_response is called here
NextConfigured ==
    \/ RunFullSession(1)
    \/ LoopTest
    \/ PatientTurn(SessionEnv)
    \/ CounselorRoundBegin(SessionEnv)
    \/ GenerateOriginal(SessionEnv)
    \/ Evaluate(SessionEnv)
    \/ AcceptResponse(SessionEnv)
    \/ ReviseResponse(SessionEnv)
    \/ StoreAndAddMessage

SpecConfigured == InitConfigured /\ [][NextConfigured]_vars

\* DialogueManager.add_message, called on the history directly; the n-th
\* message has the n-th text and the roles alternate from the mode's first
AddMessage ==
    /\ pc = "idle"
    /\ Len(turns) < MaxTurns
    /\ LET n == Len(turns) + 1
           first == IF mode = DOCTOR_FIRST THEN COUNSELOR ELSE PATIENT
           other == IF mode = DOCTOR_FIRST THEN PATIENT ELSE COUNSELOR
       IN turns' = add_turn(turns, IF n % 2 = 1 THEN first ELSE other,
                            Text(n), "none")
    /\ UNCHANGED <<mode, summary_vars, session_data, current_counselor_round,
                   pc, loop_vars, agent_response, config_vars, unit_vars, runs,
                   noise>>

\* DialogueManager.get_summary_content, called on the history directly
GetSummaryContent ==
    /\ pc = "idle"
    /\ Len(summary_history) < MaxSummaries
    /\ get_summary_content(RoundEnv)
    /\ UNCHANGED <<mode, turns, session_data, current_counselor_round, pc,
                   modification_history, reasoning_history, revising_flag,
                   original_response, current_response,
                   modification_suggestion, drafts, agent_response,
                   config_vars, unit_vars, runs>>

NextSummarizer ==
    \/ AddMessage
    \/ GetSummaryContent

SpecSummarizer == InitSession /\ [][NextSummarizer]_vars

\* ---------------------------------------------------------- role projection
\* the labels of the message format, and the identities agents.py passes
USER == "user"
ASSISTANT == "assistant"
DOCTOR == "Doctor"
Identities == {DOCTOR, "Patient"}
\* a role that is neither of the two parties'
SYSTEM == "system"
Roles == {COUNSELOR, PATIENT, SYSTEM}

Message(label, c) == [role |-> label, content |-> c]

\* DialogueHistory.to_openai_format; i is the 0-based index of the source
to_openai_format_opening_as_user(ts, id) ==
    [k \in 1..Len(ts) |->
        LET i == k - 1
            turn == ts[k]
        IN  IF i = 0 THEN Message(USER, turn.content)
            ELSE IF id = DOCTOR
            THEN IF i % 2 = 0
                 THEN IF turn.role = PATIENT
                      THEN Message(USER, turn.content)
                      ELSE Message(ASSISTANT, turn.content)
                 ELSE IF turn.role = COUNSELOR
                      THEN Message(ASSISTANT, turn.content)
                      ELSE Message(USER, turn.content)
            ELSE IF i % 2 = 0
                 THEN IF turn.role = PATIENT
                      THEN Message(ASSISTANT, turn.content)
                      ELSE Message(USER, turn.content)
                 ELSE IF turn.role = COUNSELOR
                      THEN Message(USER, turn.content)
                      ELSE Message(ASSISTANT, turn.content)]
to_openai_format(ts, id) ==
    [k \in 1..Len(ts) |->
        LET i == k - 1
            turn == ts[k]
        IN  IF id = DOCTOR
            THEN IF i % 2 = 0
                 THEN IF turn.role = PATIENT
                      THEN Message(USER, turn.content)
                      ELSE Message(ASSISTANT, turn.content)
                 ELSE IF turn.role = COUNSELOR
                      THEN Message(ASSISTANT, turn.content)
                      ELSE Message(USER, turn.content)
            ELSE IF i % 2 = 0
                 THEN IF turn.role = PATIENT
                      THEN Message(ASSISTANT, turn.content)
                      ELSE Message(USER, turn.content)
                 ELSE IF turn.role = COUNSELOR
                      THEN Message(USER, turn.content)
                      ELSE Message(ASSISTANT, turn.content)]

\* DialogueHistory.to_doctor_first_format
to_doctor_first_format_by_position(ts, id) ==
    [k \in 1..Len(ts) |->
        Message(IF ((k - 1) % 2 = 0) = (id = DOCTOR) THEN ASSISTANT ELSE USER,
                ts[k].content)]
to_doctor_first_format_two_party_only(ts, id) ==
    LET TwoParty(turn) == turn.role \in {COUNSELOR, PATIENT}
        kept == SelectSeq(ts, TwoParty)
    IN  [k \in 1..Len(kept) |->
            Message(IF (kept[k].role = COUNSELOR) = (id = DOCTOR)
                    THEN ASSISTANT ELSE USER, kept[k].content)]
to_doctor_first_format(ts, id) ==
    [k \in 1..Len(ts) |->
        LET i == k - 1
            turn == ts[k]
        IN  IF id = DOCTOR
            THEN IF i % 2 = 0
                 THEN IF turn.role = COUNSELOR
                      THEN Message(ASSISTANT, turn.content)
                      ELSE Message(USER, turn.content)
                 ELSE IF turn.role = PATIENT
                      THEN Message(USER, turn.content)
                      ELSE Message(ASSISTANT, turn.content)
            ELSE IF i % 2 = 0
                 THEN IF turn.role = COUNSELOR
                      THEN Message(USER, turn.content)
                      ELSE Message(ASSISTANT, turn.content)
                 ELSE IF turn.role = PATIENT
                      THEN Message(ASSISTANT, turn.content)
                      ELSE Message(USER, turn.content)]

\* DialogueManager.get_openai_messages
get_openai_messages(m, ts, id) ==
    IF m = DOCTOR_FIRST THEN to_doctor_first_format(ts, id)
                        ELSE to_openai_format(ts, id)

\* the histories add_message can build: any role at any position, the n-th
\* turn carrying the n-th text; at most MaxOtherRoles turns of a third role
History(roles) ==
    [k \in 1..Len(roles) |-> ConversationTurn(roles[k], Text(k), "none")]
RoleSequences ==
    {roles \in UNION {[1..n -> Roles] : n \in 0..MaxHistory} :
        Cardinality({k \in 1..Len(roles) : roles[k] = SYSTEM})
            <= MaxOtherRoles}

\* a manager in either mode holding any such history
InitProjection ==
    /\ mode \in Modes
    /\ \E roles \in RoleSequences : turns = History(roles)
    /\ ProjectionAtRest
    /\ EvaluatorAtRest
    /\ BatchAtRest
    /\ ClientAtRest
    /\ ServicesAtRest
    /\ current_summary = EMPTY
    /\ summary_history = <<>>
    /\ summarized_at = <<>>
    /\ consulted_n = -1
    /\ session_data = NewSessionData
    /\ current_counselor_round = 0
    /\ content = Context(EMPTY, <<>>)
    /\ modification_history = <<>>
    /\ reasoning_history = <<>>
    /\ revising_flag = 0
    /\ original_response = EMPTY
    /\ current_response = EMPTY
    /\ modification_suggestion = NO_PROMPT
    /\ agent_response = NoResponse
    /\ drafts = <<>>
    /\ noise = 0
    /\ max_modification_attempts = MAX_MODIFICATION_ATTEMPTS
    /\ max_dialogue_length = MAX_DIALOGUE_LENGTH
    /\ pc = "idle"
    /\ runs = 0

\* DialogueManager.get_openai_messages, called by an agent of either
\* identity (agents.py line 49)
GetOpenaiMessages ==
    /\ pc = "idle"
    /\ \E id \in Identities :
          /\ identity' = id
          /\ messages' = get_openai_messages(mode, turns, id)
    /\ UNCHANGED <<service_vars, session_vars, evaluator_vars, batch_vars, client_vars>>

NextProjection == GetOpenaiMessages

SpecProjection == InitProjection /\ [][NextProjection]_vars

\* ---------------------------------------------------------------- evaluator
\* ReasoningResult with the phase label (current_stage), which the parser
\* fills and the session does not read
StagedResult(c, s, stage, v) ==
    [conclusion |-> c, improvement_suggestion |-> s, current_stage |-> stage,
     is_valid |-> v]
\* the fields the session reads
Verdict(r) == ReasoningResult(r.conclusion, r.improvement_suggestion, r.is_valid)

\* the defaults of _parse_reasoning_response and the placeholders of the
\* except branch of evaluate_response
DEFAULT_SUGGESTION == <<"suggestion", 0>>
UNRECOGNIZED == <<"stage", 0>>
UNKNOWN_STAGE == <<"stage", -1>>
Stage(n) == <<"stage", n>>

\* How a field occurs in the evaluator's text:
\*   STRICT     "name": value   followed by a delimiter; the strict pattern
\*              matches, the coarse one does not (a quote separates the name
\*              from the colon)
\*   LOOSE      name: value     the coarse pattern matches, the strict does not
\*   MENTIONED  the name occurs, neither pattern matches
\*   ABSENT     the name does not occur
STRICT == "strict"
LOOSE == "loose"
MENTIONED == "mentioned"
ABSENT == "absent"
Forms == {STRICT, LOOSE, MENTIONED, ABSENT}
NO_VALUE == <<"none", 0>>
Field(form, value) ==
    [form |-> form,
     value |-> IF form \in {STRICT, LOOSE} THEN value ELSE NO_VALUE]

\* a text: its three fields, and whether the affirmative token occurs
\* anywhere in it (it does when it is the value of the verdict field)
ReasoningText(c, s, st, affirmative) ==
    [kind |-> "text", conclusion |-> c, suggestion |-> s, stage |-> st,
     affirmative |-> affirmative \/ c.value = AFFIRMATIVE]
EMPTY_TEXT ==
    ReasoningText(Field(ABSENT, NO_VALUE), Field(ABSENT, NO_VALUE),
                  Field(ABSENT, NO_VALUE), FALSE)
\* content is None, and generate_reasoning raised
MISSING_TEXT == [kind |-> "missing"]
REASONING_FAILED == [kind |-> "raised"]

ReasoningTexts ==
    {ReasoningText(Field(cf, cv), Field(sf, Suggestion(1)),
                   Field(stf, Stage(1)), a) :
        cf \in Forms, cv \in {AFFIRMATIVE, NEGATIVE}, sf \in Forms,
        stf \in Forms, a \in BOOLEAN}
ReasoningOutputs == ReasoningTexts \cup {MISSING_TEXT, REASONING_FAILED}

\* ReasoningEngine._parse_reasoning_response
StrictMatch(field) == field.form = STRICT
CoarseMatch(field) == field.form = LOOSE
Named(field) == field.form # ABSENT
Fallback(text) ==
    StagedResult(IF Named(text.conclusion) /\ text.affirmative
                 THEN AFFIRMATIVE ELSE NEGATIVE,
                 IF Named(text.suggestion) /\ CoarseMatch(text.suggestion)
                 THEN text.suggestion.value ELSE DEFAULT_SUGGESTION,
                 IF Named(text.stage) /\ CoarseMatch(text.stage)
                 THEN text.stage.value ELSE UNRECOGNIZED,
                 FALSE)
Strict(text) ==
    StagedResult(IF StrictMatch(text.conclusion)
                 THEN text.conclusion.value ELSE NEGATIVE,
                 IF StrictMatch(text.suggestion)
                 THEN text.suggestion.value ELSE DEFAULT_SUGGESTION,
                 IF StrictMatch(text.stage)
                 THEN text.stage.value ELSE UNRECOGNIZED,
                 TRUE)
parse_reasoning_response_any_field(text) ==
    IF \/ StrictMatch(text.conclusion)
       \/ StrictMatch(text.suggestion)
       \/ StrictMatch(text.stage)
    THEN Strict(text)
    ELSE Fallback(text)
parse_reasoning_response_keeps_fallback_valid(text) ==
    IF StrictMatch(text.conclusion) \/ StrictMatch(text.suggestion)
    THEN Strict(text)
    ELSE [Fallback(text) EXCEPT !.is_valid = TRUE]
parse_reasoning_response(text) ==
    IF StrictMatch(text.conclusion) \/ StrictMatch(text.suggestion)
    THEN Strict(text)
    ELSE Fallback(text)

\* ReasoningEngine.evaluate_response: the parser raises on a missing text
\* (re.findall on None), and every exception ends in the except branch
StagedErrorResult ==
    StagedResult(NEGATIVE, EVALUATION_ERROR, UNKNOWN_STAGE, FALSE)
evaluate_response(output) ==
    IF output.kind = "text" THEN parse_reasoning_response(output)
                            ELSE StagedErrorResult

\* an engine about to evaluate, whatever generate_reasoning will do
InitEvaluator ==
    /\ SessionAtRest
    /\ ProjectionAtRest
    /\ BatchAtRest
    /\ ClientAtRest
    /\ ServicesAtRest
    /\ reasoning_output \in ReasoningOutputs
    /\ reasoning_result = NOT_CALLED

EvaluateResponse ==
    /\ pc = "idle"
    /\ reasoning_result = NOT_CALLED
    /\ reasoning_result' = evaluate_response(reasoning_output)
    /\ UNCHANGED <<service_vars, session_vars, projection_vars, reasoning_output,
                   batch_vars, client_vars>>

NextEvaluator == EvaluateResponse

SpecEvaluator == InitEvaluator /\ [][NextEvaluator]_vars

\* --------------------------------------------------------- batch processing
\* the name list_files returns for a file, and the name without extension
\* (os.path.splitext) that run_single_session is given
FileName(f) == <<f, ".txt">>
BaseName(f) == <<f, "">>

\* ProcessingLog.is_processed, ProcessingLog.mark_processed
is_processed(ledger, name) == name \in ledger
mark_processed(ledger, name) ==
    IF name \notin ledger THEN ledger \cup {name} ELSE ledger

RunOf(w) == w[1]
FileOf(w) == w[2]
Moves(w, from, to) ==
    /\ file_state[w] = from
    /\ file_state' = [file_state EXCEPT ![w] = to]

\* process_patient_folder_concurrent: list_files (main.py line 226)
ListFiles(r) ==
    /\ \A f \in Files : file_state[<<r, f>>] = "unlisted"
    /\ file_state' = [w \in Workers |->
                         IF RunOf(w) = r THEN "listed" ELSE file_state[w]]
    /\ UNCHANGED <<service_vars, session_vars, projection_vars, evaluator_vars, client_vars,
                   processed_files, processing_lock, sessions_run, succeeded>>

\* the filter loop (lines 238-244): the ledger is read without the lock
FilterFile(w) ==
    /\ Moves(w, "listed",
             IF is_processed(processed_files, FileName(FileOf(w)))
             THEN "skipped" ELSE "queued")
    /\ UNCHANGED <<service_vars, session_vars, projection_vars, evaluator_vars, client_vars,
                   processed_files, processing_lock, sessions_run, succeeded>>

\* a pool thread takes up a submitted file once the filter loop is over
\* (lines 253-262), and _process_single_file_concurrent loads the profile
\* (lines 314-319) and enters run_single_session
Filtered(r) ==
    \A f \in Files : file_state[<<r, f>>] \notin {"unlisted", "listed"}
LoadProfile(w) ==
    /\ Filtered(RunOf(w))
    /\ \E loaded \in BOOLEAN :
          /\ Moves(w, "queued", IF loaded THEN "session" ELSE "done")
          /\ sessions_run' =
                IF loaded
                THEN [sessions_run EXCEPT ![FileOf(w)] = @ + 1]
                ELSE sessions_run
    /\ UNCHANGED <<service_vars, session_vars, projection_vars, evaluator_vars, client_vars,
                   processed_files, processing_lock, succeeded>>

\* run_single_session (lines 49-91): the session ran and was saved, and the
\* base name is marked (line 83, without the lock), or an exception was
\* caught and an error result returned
RunSingleSession(w) ==
    /\ \E ok \in BOOLEAN :
          /\ Moves(w, "session", "returned")
          /\ processed_files' =
                IF ok THEN mark_processed(processed_files, BaseName(FileOf(w)))
                      ELSE processed_files
          /\ succeeded' = IF ok THEN succeeded \cup {FileOf(w)} ELSE succeeded
    /\ UNCHANGED <<service_vars, session_vars, projection_vars, evaluator_vars, client_vars,
                   processing_lock, sessions_run>>

\* _process_single_file_concurrent, lines 333-334
AcquireLock(w) ==
    /\ processing_lock = FREE
    /\ Moves(w, "returned", "locked")
    /\ processing_lock' = w
    /\ UNCHANGED <<service_vars, session_vars, projection_vars, evaluator_vars, client_vars,
                   processed_files, sessions_run, succeeded>>

MarkProcessed(w) ==
    /\ Moves(w, "locked", "marked")
    /\ processed_files' = mark_processed(processed_files, FileName(FileOf(w)))
    /\ UNCHANGED <<service_vars, session_vars, projection_vars, evaluator_vars, client_vars,
                   processing_lock, sessions_run, succeeded>>

ReleaseLock(w) ==
    /\ Moves(w, "marked", "done")
    /\ processing_lock' = FREE
    /\ UNCHANGED <<service_vars, session_vars, projection_vars, evaluator_vars, client_vars,
                   processed_files, sessions_run, succeeded>>

\* batch runs over the same folder, one after the other or overlapping
NextBatch ==
    \/ \E r \in BatchRuns : ListFiles(r)
    \/ \E w \in Workers : FilterFile(w)
    \/ \E w \in Workers : LoadProfile(w)
    \/ \E w \in Workers : RunSingleSession(w)
    \/ \E w \in Workers : AcquireLock(w)
    \/ \E w \in Workers : MarkProcessed(w)
    \/ \E w \in Workers : ReleaseLock(w)

SpecBatch == InitSession /\ [][NextBatch]_vars

\* process_patient_folder: the calls do not overlap, and a call works
\* through the listed files in order (main.py lines 147-189)
Finished(r) == \A f \in Files : file_state[<<r, f>>] \in {"skipped", "done"}
NotStarted(r) == \A f \in Files : file_state[<<r, f>>] = "unlisted"
SequentialListFiles(r) ==
    /\ NotStarted(r)
    /\ \A other \in BatchRuns \ {r} : NotStarted(other) \/ Finished(other)
    /\ file_state' = [w \in Workers |->
                         IF RunOf(w) = r THEN "listed" ELSE file_state[w]]
    /\ UNCHANGED <<service_vars, session_vars, projection_vars, evaluator_vars,
                   client_vars, processed_files, processing_lock,
                   sessions_run, succeeded>>

\* one pass of the for loop up to the call of run_single_session (lines
\* 157-176): the skip check, then the profile is loaded
SequentialCheckFile(w) ==
    /\ \A f \in 1..(FileOf(w) - 1) :
          file_state[<<RunOf(w), f>>] \in {"skipped", "done"}
    /\ \E loaded \in BOOLEAN :
          /\ Moves(w, "listed",
                   IF is_processed(processed_files, FileName(FileOf(w)))
                   THEN "skipped"
                   ELSE IF loaded THEN "session" ELSE "done")
          /\ sessions_run' =
                IF ~is_processed(processed_files, FileName(FileOf(w)))
                   /\ loaded
                THEN [sessions_run EXCEPT ![FileOf(w)] = @ + 1]
                ELSE sessions_run
    /\ UNCHANGED <<service_vars, session_vars, projection_vars, evaluator_vars,
                   client_vars, processed_files, processing_lock, succeeded>>

\* run_single_session (lines 49-91) called with the base name, and the
\* result counted (lines 183-187)
SequentialRunSingleSession(w) ==
    /\ \E ok \in BOOLEAN :
          /\ Moves(w, "session", "done")
          /\ processed_files' =
                IF ok THEN mark_processed(processed_files, BaseName(FileOf(w)))
                      ELSE processed_files
          /\ succeeded' = IF ok THEN succeeded \cup {FileOf(w)} ELSE succeeded
    /\ UNCHANGED <<service_vars, session_vars, projection_vars, evaluator_vars,
                   client_vars, processing_lock, sessions_run>>

NextSequential ==
    \/ \E r \in BatchRuns : SequentialListFiles(r)
    \/ \E w \in Workers : SequentialCheckFile(w)
    \/ \E w \in Workers : SequentialRunSingleSession(w)

SpecSequential == InitSession /\ [][NextSequential]_vars

\* --------------------------------------------------------------- LLM client
REASONING_MODEL == "deepseek-r1"
CONVERSATION_MODEL == "qwen-plus"
SUMMARY_MODEL == "qwen-max"
Models == {REASONING_MODEL, CONVERSATION_MODEL, SUMMARY_MODEL}

\* the arguments of generate_response, and whether a client for the model
\* is configured (_get_client_by_model)
Requests ==
    [model : Models, return_reasoning : BOOLEAN, available : BOOLEAN]

\* timeout_response of _handle_reasoning_request
TIMEOUT_SENTINEL == <<"model_service_timeout", 0>>

\* what one call of client.chat.completions.create does: it answers with a
\* message, whose content may be the timeout text, or it raises
Answered(c) == [kind |-> "answered", content |-> c]
REMOTE_FAILED == [kind |-> "failed", content |-> EMPTY]
RemoteOutcomes == {Answered(Text(1)), Answered(TIMEOUT_SENTINEL), REMOTE_FAILED}

\* how generate_response ends
Returned(c) == [kind |-> "returned", content |-> c]
Raised == [kind |-> "raised", content |-> EMPTY]
\* the object the except branch of _handle_reasoning_request builds
SentinelObject == [kind |-> "sentinel", content |-> TIMEOUT_SENTINEL]

\* the histories keep their first MaxCalls entries
Kept(history, entry) ==
    IF Len(history) < MaxCalls THEN Append(history, entry) ELSE history

\* _make_request_with_retry, lines 181-183
retries_left_one_more(a) == a < MAX_RETRIES
retries_left(a) == a < MAX_RETRIES - 1
next_delay_constant(delay) == delay
next_delay(delay) == delay * 2

\* _handle_reasoning_request, line 238: the test of the while loop
reasoning_loop_continues(c) ==
    c = NO_COMPLETION \/ c.content = TIMEOUT_SENTINEL

\* generate_response, lines 204-227
GenerateResponse ==
    /\ request_pc = "dispatch"
    /\ IF ~request.available
       THEN /\ request_pc' = "raised"
            /\ completion' = Raised
            /\ UNCHANGED <<attempt, retry_delay>>
       ELSE IF request.model = REASONING_MODEL /\ request.return_reasoning
       THEN /\ request_pc' = "reasoning_call"
            /\ UNCHANGED <<completion, attempt, retry_delay>>
       ELSE /\ request_pc' = "retry_call"
            /\ attempt' = 0
            /\ retry_delay' = RETRY_DELAY
            /\ UNCHANGED completion
    /\ UNCHANGED <<service_vars, session_vars, projection_vars, evaluator_vars, batch_vars,
                   request, remote_calls, sleeps>>

\* _make_request_with_retry: one pass of the try block (lines 171-177)
RetryCall ==
    /\ request_pc = "retry_call"
    /\ \E outcome \in RemoteOutcomes :
          /\ remote_calls' = Kept(remote_calls, outcome)
          /\ IF outcome.kind = "answered"
             THEN /\ completion' = Returned(outcome.content)
                  /\ request_pc' = "returned"
             ELSE /\ request_pc' = "retry_except"
                  /\ UNCHANGED completion
    /\ UNCHANGED <<service_vars, session_vars, projection_vars, evaluator_vars, batch_vars,
                   request, attempt, retry_delay, sleeps>>

\* the except branch with attempts left (lines 181-183)
RetryBackoff ==
    /\ request_pc = "retry_except"
    /\ retries_left(attempt)
    /\ sleeps' = Kept(sleeps, retry_delay)
    /\ retry_delay' = next_delay(retry_delay)
    /\ attempt' = attempt + 1
    /\ request_pc' = "retry_call"
    /\ UNCHANGED <<service_vars, session_vars, projection_vars, evaluator_vars, batch_vars,
                   request, completion, remote_calls>>

\* the except branch after the last attempt (line 185); generate_response
\* raises the error on (lines 225-227)
RetryRaise ==
    /\ request_pc = "retry_except"
    /\ ~retries_left(attempt)
    /\ completion' = Raised
    /\ request_pc' = "raised"
    /\ UNCHANGED <<service_vars, session_vars, projection_vars, evaluator_vars, batch_vars,
                   request, attempt, retry_delay, remote_calls, sleeps>>

\* _handle_reasoning_request: one pass of the try block (lines 239-251)
ReasoningCall ==
    /\ request_pc = "reasoning_call"
    /\ reasoning_loop_continues(completion)
    /\ \E outcome \in RemoteOutcomes :
          /\ remote_calls' = Kept(remote_calls, outcome)
          /\ IF outcome.kind = "answered"
             THEN /\ completion' = Returned(outcome.content)
                  /\ request_pc' = "returned"
             ELSE /\ request_pc' = "reasoning_except"
                  /\ UNCHANGED completion
    /\ UNCHANGED <<service_vars, session_vars, projection_vars, evaluator_vars, batch_vars,
                   request, attempt, retry_delay, sleeps>>

\* the except branch (lines 253-256), back to the test of the loop
ReasoningRetry ==
    /\ request_pc = "reasoning_except"
    /\ completion' = SentinelObject
    /\ sleeps' = Kept(sleeps, REASONING_RETRY_SLEEP)
    /\ request_pc' = "reasoning_call"
    /\ UNCHANGED <<service_vars, session_vars, projection_vars, evaluator_vars, batch_vars,
                   request, attempt, retry_delay, remote_calls>>

\* a client that was just asked for a response
InitClient ==
    /\ SessionAtRest
    /\ ProjectionAtRest
    /\ EvaluatorAtRest
    /\ BatchAtRest
    /\ ServicesAtRest
    /\ request \in Requests
    /\ request_pc = "dispatch"
    /\ attempt = 0
    /\ retry_delay = 0
    /\ completion = NO_COMPLETION
    /\ remote_calls = <<>>
    /\ sleeps = <<>>

NextClient ==
    \/ GenerateResponse
    \/ RetryCall
    \/ RetryBackoff
    \/ RetryRaise
    \/ ReasoningCall
    \/ ReasoningRetry

SpecClient == InitClient /\ [][NextClient]_vars

\* the thread inside the client keeps running
SpecClientFair == SpecClient /\ WF_vars(NextClient)

\* ------------------------------------- ReasoningEngine's modification cycle
IsNegative(conclusion) == conclusion = NEGATIVE

\* ReasoningEngine.should_continue_modification (reasoning_engine.py lines
\* 202-232): the cap, then the affirmative token, then the negative token,
\* and a conclusion with neither token stops the cycle (the default case)
should_continue_modification(result, attempt_count) ==
    IF attempt_count >= max_modification_attempts THEN FALSE
    ELSE IF IsAffirmative(result.conclusion) THEN FALSE
    ELSE IF IsNegative(result.conclusion)
            /\ attempt_count < max_modification_attempts THEN TRUE
    ELSE FALSE

\* ReasoningEngine.process_modification_cycle (lines 269-339), the evaluator
\* answering results[k] to the k-th evaluation: the loop from attempt_count
\* on. The response is not regenerated, so every record holds the initial one.
RECURSIVE modification_cycle_from(_, _, _, _, _)
modification_cycle_from(initial_response, results, attempt_count, rh, mh) ==
    IF attempt_count >= Len(results)
    THEN [kind |-> "starved", results |-> results,
          reasoning_history |-> rh, modification_history |-> mh]
    ELSE LET result == results[attempt_count + 1]
             evaluated == Append(rh, result)
         IN IF ~should_continue_modification(result, attempt_count)
            THEN [kind |-> "returned", results |-> results,
                  reasoning_history |-> evaluated,
                  modification_history |-> mh]
            ELSE modification_cycle_from(
                     initial_response, results, attempt_count + 1, evaluated,
                     Append(mh,
                            ModificationRecord(attempt_count + 1,
                                               initial_response, result)))
process_modification_cycle(initial_response, results) ==
    modification_cycle_from(initial_response, results, 0, <<>>, <<>>)

\* the cycle is run on the original response of the round just completed,
\* its evaluator giving the verdicts the round's evaluator gave
ProcessModificationCycle ==
    /\ pc = "gnr_store"
    /\ agent_response.has_reasoning
    /\ cycle' = process_modification_cycle(original_response,
                                           reasoning_history)
    /\ UNCHANGED <<session_vars, projection_vars, evaluator_vars, batch_vars,
                   client_vars, cache_vars, manager_vars>>

NextCycle ==
    \/ CounselorRoundBegin(RoundEnv)
    \/ GenerateOriginal(RoundEnv)
    \/ Evaluate(RoundEnv)
    \/ AcceptResponse(RoundEnv)
    \/ ReviseResponse(RoundEnv)
    \/ StoreAndAddMessage
    \/ ProcessModificationCycle

SpecCycle == Init /\ [][NextCycle]_vars

\* ------------------------------------------------------------ ReasoningCache
\* the keys are the digests _generate_key computes (reasoning_engine.py lines
\* 350-359), the results the two kinds of verdict
CachedResults ==
    {ReasoningResult(c, Suggestion(1), TRUE) : c \in {AFFIRMATIVE, NEGATIVE}}
InCache(c, key) == c[key] # NO_ENTRY
CachedKeys(c) == {k \in Keys : InCache(c, k)}
InOrder(order, key) == \E i \in 1..Len(order) : order[i] = key

\* list.remove: the first occurrence is taken out
Remove(order, key) ==
    LET first == CHOOSE i \in 1..Len(order) :
                     /\ order[i] = key
                     /\ \A j \in 1..(i - 1) : order[j] # key
    IN  SubSeq(order, 1, first - 1) \o SubSeq(order, first + 1, Len(order))

\* ReasoningCache.get (lines 361-377): a hit moves the key to the end of
\* access_order
get_without_reordering(c, order, key) ==
    IF InCache(c, key)
    THEN [access_order |-> order, result |-> c[key]]
    ELSE [access_order |-> order, result |-> NO_ENTRY]
get(c, order, key) ==
    IF InCache(c, key)
    THEN [access_order |-> Append(Remove(order, key), key), result |-> c[key]]
    ELSE [access_order |-> order, result |-> NO_ENTRY]

\* ReasoningCache.put (lines 379-400)
put(c, order, size, key, result) ==
    LET evicts == Cardinality(CachedKeys(c)) >= size /\ ~InCache(c, key)
        oldest_key == Head(order)
        kept == IF evicts THEN [c EXCEPT ![oldest_key] = NO_ENTRY] ELSE c
        rest == IF evicts THEN Tail(order) ELSE order
    IN  [cache |-> [kept EXCEPT ![key] = result],
         access_order |-> Append(IF InOrder(rest, key) THEN Remove(rest, key)
                                                       ELSE rest, key)]

CacheGet(key) ==
    /\ cache_clock < MaxCacheOps
    /\ cache_clock' = cache_clock + 1
    /\ access_order' = get(cache, access_order, key).access_order
    /\ last_use' = IF InCache(cache, key)
                   THEN [last_use EXCEPT ![key] = cache_clock']
                   ELSE last_use
    /\ UNCHANGED <<cache, max_size, session_vars, projection_vars,
                   evaluator_vars, batch_vars, client_vars, cycle_vars,
                   manager_vars>>

CachePut(key, result) ==
    /\ cache_clock < MaxCacheOps
    /\ cache_clock' = cache_clock + 1
    /\ cache' = put(cache, access_order, max_size, key, result).cache
    /\ access_order' =
          put(cache, access_order, max_size, key, result).access_order
    /\ last_use' = [last_use EXCEPT ![key] = cache_clock']
    /\ UNCHANGED <<max_size, session_vars, projection_vars, evaluator_vars,
                   batch_vars, client_vars, cycle_vars, manager_vars>>

\* ReasoningCache.clear (lines 402-406)
CacheClear ==
    /\ cache_clock < MaxCacheOps
    /\ cache_clock' = cache_clock + 1
    /\ cache' = [k \in Keys |-> NO_ENTRY]
    /\ access_order' = <<>>
    /\ UNCHANGED <<max_size, last_use, session_vars, projection_vars,
                   evaluator_vars, batch_vars, client_vars, cycle_vars,
                   manager_vars>>

\* a cache constructed with any max_size of at least one
InitCache ==
    /\ SessionAtRest
    /\ ProjectionAtRest
    /\ EvaluatorAtRest
    /\ BatchAtRest
    /\ ClientAtRest
    /\ CycleAtRest
    /\ ManagerAtRest
    /\ cache = [k \in Keys |-> NO_ENTRY]
    /\ access_order = <<>>
    /\ max_size \in 1..MaxCacheSize
    /\ last_use = [k \in Keys |-> 0]
    /\ cache_clock = 0

NextCache ==
    \/ \E key \in Keys : CacheGet(key)
    \/ \E key \in Keys, result \in CachedResults : CachePut(key, result)
    \/ CacheClear

SpecCache == InitCache /\ [][NextCache]_vars

\* ----------------------------------------------------------- SessionManager
\* a session as the manager sees it: whether should_end_session holds
Session(ended) == [kind |-> "session", should_end_session |-> ended]

\* SessionManager.create_session (agents.py lines 483-499)
create_session(registry, active, session_id) ==
    [sessions |-> [registry EXCEPT ![session_id] = Session(FALSE)],
     active_sessions |-> Append(active, session_id)]

\* SessionManager.end_session (lines 505-509)
end_session(active, session_id) ==
    IF InOrder(active, session_id) THEN Remove(active, session_id) ELSE active

\* SessionManager.get_active_sessions (lines 511-513)
get_active_sessions(active) == active

\* SessionManager.cleanup_sessions (lines 515-526)
RECURSIVE end_sessions(_, _)
end_sessions(active, to_remove) ==
    IF to_remove = <<>> THEN active
    ELSE end_sessions(end_session(active, Head(to_remove)), Tail(to_remove))
cleanup_sessions(registry, active) ==
    LET Ended(session_id) ==
            /\ registry[session_id] # NO_SESSION
            /\ registry[session_id].should_end_session
    IN  end_sessions(active, SelectSeq(active, Ended))

CreateSession(session_id) ==
    /\ Len(active_sessions) < MaxActive
    /\ sessions' = create_session(sessions, active_sessions, session_id).sessions
    /\ active_sessions' =
          create_session(sessions, active_sessions, session_id).active_sessions
    /\ UNCHANGED <<session_vars, projection_vars, evaluator_vars, batch_vars,
                   client_vars, cycle_vars, cache_vars>>

EndSession(session_id) ==
    /\ active_sessions' = end_session(active_sessions, session_id)
    /\ UNCHANGED <<sessions, session_vars, projection_vars, evaluator_vars,
                   batch_vars, client_vars, cycle_vars, cache_vars>>

CleanupSessions ==
    /\ active_sessions' = cleanup_sessions(sessions, active_sessions)
    /\ UNCHANGED <<sessions, session_vars, projection_vars, evaluator_vars,
                   batch_vars, client_vars, cycle_vars, cache_vars>>

\* the dialogue of a created session reaches a goodbye or its maximum
\* length (ConversationSession.should_end_session, lines 393-403)
SessionReachesEnd(session_id) ==
    /\ sessions[session_id] = Session(FALSE)
    /\ sessions' = [sessions EXCEPT ![session_id] = Session(TRUE)]
    /\ UNCHANGED <<active_sessions, session_vars, projection_vars,
                   evaluator_vars, batch_vars, client_vars, cycle_vars,
                   cache_vars>>

NextManager ==
    \/ \E session_id \in SessionIds : CreateSession(session_id)
    \/ \E session_id \in SessionIds : EndSession(session_id)
    \/ CleanupSessions
    \/ \E session_id \in SessionIds : SessionReachesEnd(session_id)

SpecManager == InitSession /\ [][NextManager]_vars

\* ------------------------------------------------------------------ claims
InLoop == pc \in {"gr_original", "gr_evaluate", "gr_decide"}
LoopCompleted == pc = "gnr_store" /\ agent_response.has_reasoning
Rejected(result) == ~IsAffirmative(result.conclusion)
AllRejected ==
    \A i \in 1..Len(reasoning_history) : Rejected(reasoning_history[i])

\* C1: one counselor round performs at most max_modification_attempts + 1
\* evaluations: the round's list of verdicts never grows beyond that, no
\* evaluation is pending once it has that length, and the verdict list
\* handed to the session is no longer either.
C1_AtMostCapPlusOneEvaluations ==
    /\ Len(reasoning_history) <= max_modification_attempts + 1
    /\ pc = "gr_evaluate" => Len(reasoning_history) <= max_modification_attempts
    /\ (pc = "gr_decide" /\ Len(reasoning_history) = max_modification_attempts + 1)
          => loop_exits(Last(reasoning_history), revising_flag)
    /\ Len(agent_response.reasoning_history) <= max_modification_attempts + 1
    /\ \A i \in 1..Len(session_data.reasoning_history_by_round) :
          Len(session_data.reasoning_history_by_round[i].reasoning_history)
             <= max_modification_attempts + 1

\* a round that used all its evaluations and returned
C1_Witness ==
    /\ LoopCompleted
    /\ max_modification_attempts = MAX_MODIFICATION_ATTEMPTS
    /\ Len(agent_response.reasoning_history) = max_modification_attempts + 1
    /\ AllRejected

\* C2 (as claimed): when every evaluation rejects, the completed loop holds
\* exactly max_modification_attempts modification records and its final text
\* is the last regenerated draft.
C2_FinalTextIsLastDraft ==
    (LoopCompleted /\ AllRejected)
       => /\ Len(modification_history) = max_modification_attempts
          /\ Len(drafts) = max_modification_attempts + 1
          /\ agent_response.content = Last(drafts)

\* C3 (as claimed): when the attempt-0 evaluation accepts, the completed loop
\* has no modification record, one verdict, and its final text is the
\* attempt-0 draft.
C3_AcceptedFinalTextIsOriginal ==
    (LoopCompleted /\ IsAffirmative(reasoning_history[1].conclusion))
       => /\ modification_history = <<>>
          /\ Len(reasoning_history) = 1
          /\ agent_response.content = original_response

\* C4 (as claimed): the modification instruction built after the k-th
\* rejection lists the suggestions 1..k in order and refers to the
\* attempt-0 draft.
C4_PromptRefersToOriginalDraft ==
    (pc \in {"gr_evaluate", "gr_decide"} /\ modification_history # <<>>)
       => /\ Len(modification_suggestion.items) = Len(modification_history)
          /\ \A i \in 1..Len(modification_history) :
                modification_suggestion.items[i].suggestion =
                   modification_history[i].improvement_suggestion
          /\ modification_suggestion.response = original_response

\* evaluations the loop has already acted on
Decided == IF pc = "gr_decide" THEN Len(reasoning_history) - 1
                               ELSE Len(reasoning_history)

\* C5: a modification record exists exactly for each evaluation that
\* rejected with the attempt counter below the cap; the k-th record has
\* attempt number k (at most the cap), holds the k-th draft of the round,
\* which is the one that evaluation judged, and that evaluation's suggestion.
C5_RecordPerRejection ==
    /\ Len(modification_history) =
          Cardinality({i \in 1..Decided :
                          /\ Rejected(reasoning_history[i])
                          /\ i - 1 < max_modification_attempts})
    /\ Len(modification_history) <= max_modification_attempts
    /\ \A k \in 1..Len(modification_history) :
          /\ modification_history[k].attempt_number = k
          /\ modification_history[k].original_content = drafts[k]
          /\ Rejected(reasoning_history[k])
          /\ modification_history[k].improvement_suggestion =
                reasoning_history[k].improvement_suggestion
          /\ modification_history[k].reasoning_result = reasoning_history[k]

\* a round with as many records as the cap allows, made from several drafts
C5_Witness ==
    /\ pc = "gr_decide"
    /\ max_modification_attempts = MAX_MODIFICATION_ATTEMPTS
    /\ Len(modification_history) = max_modification_attempts
    /\ drafts[1] # drafts[2]
    /\ modification_history[1].improvement_suggestion #
          modification_history[2].improvement_suggestion

\* the step in which a draft request failed: it leaves the loop although
\* the loop's exit test does not hold
GeneratorFailed ==
    /\ pc' = "gnr_store"
    /\ \/ pc = "gr_original"
       \/ pc = "gr_decide" /\ ~loop_exits(Last(reasoning_history), revising_flag)

\* C6: a failed draft request (attempt 0 or regeneration) ends the loop in
\* that step with the fixed apology as the response and the error in its
\* metadata; from then on the round evaluates and revises nothing, and the
\* apology is what is committed.
C6_GeneratorFailureAborts ==
    [][/\ GeneratorFailed =>
            /\ agent_response'.content = COUNSELOR_APOLOGY
            /\ agent_response'.metadata = "error"
            /\ ~agent_response'.has_reasoning
            /\ reasoning_history' = reasoning_history
            /\ drafts' = drafts
       /\ (pc = "gnr_store" /\ ~agent_response.has_reasoning) =>
            /\ pc' = "rfs_loop"
            /\ reasoning_history' = reasoning_history
            /\ modification_history' = modification_history
            /\ drafts' = drafts
            /\ Last(turns').content = COUNSELOR_APOLOGY
            /\ Last(turns').metadata = "error"]_vars

\* a regeneration failed after two evaluations
C6_Witness ==
    /\ pc = "gnr_store"
    /\ agent_response.metadata = "error"
    /\ Len(reasoning_history) = 2
    /\ Len(modification_history) = 2

\* C8: while a Revision Loop runs no turn is appended or changed; the step
\* that ends get_next_response appends exactly one Counselor turn, whose
\* content is the response the loop returned (for a completed loop, its
\* final text).
C8_SequentialCommit ==
    [][/\ (pc = "gnr" \/ InLoop) => turns' = turns
       /\ pc = "gnr_store" =>
            /\ Len(turns') = Len(turns) + 1
            /\ SubSeq(turns', 1, Len(turns)) = turns
            /\ Last(turns').role = COUNSELOR
            /\ Last(turns').content = agent_response.content
            /\ agent_response.has_reasoning =>
                  Last(turns').content = current_response]_vars

\* a round with revisions has been committed
C8_Witness ==
    /\ pc = "rfs_loop"
    /\ Len(modification_history) >= 2
    /\ Len(turns) >= 2
    /\ Last(turns).role = COUNSELOR
    /\ Last(turns).content = current_response
    /\ current_response # original_response

\* no call of the counselor agent is in progress
BetweenResponses == pc \in {"idle", "rfs_loop", "gnr", "returned"}

Audit == session_data.reasoning_history_by_round

\* the turns of the history that a counselor round produced, by outcome
CompletedRounds ==
    {i \in 1..Len(turns) : turns[i].role = COUNSELOR /\ turns[i].metadata = "meta"}
FailedRounds ==
    {i \in 1..Len(turns) : turns[i].role = COUNSELOR /\ turns[i].metadata = "error"}

NoCounselorGoodbye ==
    \A i \in 1..Len(turns) :
        turns[i].role = COUNSELOR => ~HasGoodbye(turns[i].content)

\* C9: a session in which no counselor turn contains the termination phrase
\* never holds more turns than its mode's ceiling, and run_full_session
\* returns with exactly that many: 50 for CounselorFirst, the short ceiling
\* for ClientFirst.
C9_EndsExactlyAtCeiling ==
    NoCounselorGoodbye =>
       /\ Len(turns) <= Ceiling(mode)
       /\ pc = "returned" => Len(turns) = Ceiling(mode)
       /\ Ceiling(mode) = IF mode = DOCTOR_FIRST THEN 50 ELSE MAX_DIALOGUE_LENGTH

\* a CounselorFirst session that ran to its ceiling
C9_Witness ==
    /\ pc = "returned"
    /\ mode = DOCTOR_FIRST
    /\ NoCounselorGoodbye
    /\ Len(turns) = 50
    /\ \E i \in 1..Len(turns) : HasGoodbye(turns[i].content)

LastIsCounselorGoodbye ==
    /\ turns # <<>>
    /\ Last(turns).role = COUNSELOR
    /\ HasGoodbye(Last(turns).content)

\* C10: no further response is requested once the most recent turn is a
\* Counselor turn with the termination phrase, whatever the turn count; and
\* run_full_session returns only for that reason or at the ceiling, so the
\* phrase in a Client turn, or in a Counselor turn that is not the most
\* recent one, does not end the session.
C10_GoodbyeEndsSession ==
    /\ (pc = "gnr" \/ InLoop \/ pc = "gnr_store") => ~LastIsCounselorGoodbye
    /\ pc = "returned" =>
          LastIsCounselorGoodbye \/ Len(turns) >= Ceiling(mode)

\* the session goes on below its ceiling after a Counselor turn with the
\* termination phrase that is no longer the most recent turn
C10_Witness ==
    /\ pc = "gnr"
    /\ Len(turns) < Ceiling(mode)
    /\ \E i \in 1..(Len(turns) - 1) :
          turns[i].role = COUNSELOR /\ HasGoodbye(turns[i].content)

\* the session goes on below its ceiling after a Client turn with the
\* termination phrase
C10_ClientGoodbyeReached ==
    /\ pc = "gnr"
    /\ turns # <<>>
    /\ Len(turns) < Ceiling(mode)
    /\ Last(turns).role = PATIENT
    /\ HasGoodbye(Last(turns).content)

\* C11 (as claimed): once the end condition of the session holds, no step of
\* the session appends a turn, and the end condition holds ever after.
C11_EndedIsTerminal ==
    [][should_end_session(mode, turns) =>
          /\ turns' = turns
          /\ should_end_session(mode, turns')]_vars

\* the turns after the opening that a counselor produced
CounselorReplies ==
    {i \in 2..Len(turns) : turns[i].role = COUNSELOR}

\* C12 (as claimed): in every state no two consecutive turns have the same
\* role; turn 0 has the role the mode fixes; a Revision Loop runs only when
\* the most recent turn is a Client turn, and every loop that ran produced a
\* Counselor turn, so no Client turn comes from a loop.
C12_TurnsAlternate ==
    /\ \A i \in 1..(Len(turns) - 1) : turns[i].role # turns[i + 1].role
    /\ turns # <<>> =>
          turns[1].role = IF mode = DOCTOR_FIRST THEN COUNSELOR ELSE PATIENT
    /\ (InLoop \/ pc = "gnr_store") => Last(turns).role = PATIENT
    /\ current_counselor_round =
          Cardinality(CounselorReplies)
             + (IF InLoop \/ pc = "gnr_store" THEN 1 ELSE 0)

\* what does hold: the same, up to the first return of run_full_session
C12_HoldsUntilFirstReturn ==
    runs <= 1 => C12_TurnsAlternate

\* C13: a failed Client generation appends, in the step of the failure,
\* exactly one Client turn with the Client's fallback text; a Counselor round
\* that failed appends exactly one Counselor turn with the apology; nothing
\* is generated a second time for that turn; the loop of run_full_session
\* asks for the next response whenever no end condition holds, and returns
\* only when one holds.
C13_FailuresAreNotFatal ==
    [][/\ (pc = "gnr" /\ pc' = "rfs_loop" /\ agent_response'.metadata = "error")
            => turns' = add_turn(turns, PATIENT, PATIENT_FALLBACK, "error")
       /\ (pc = "gnr_store" /\ agent_response.metadata = "error")
            => /\ turns' = add_turn(turns, COUNSELOR, COUNSELOR_APOLOGY, "error")
               /\ pc' = "rfs_loop"
       /\ (pc = "gnr" /\ turns # <<>> /\ Last(turns).role = COUNSELOR)
            => /\ Len(turns') = Len(turns) + 1
               /\ pc' = "rfs_loop"
       /\ (pc = "rfs_loop" /\ ~should_end_session(mode, turns)) => pc' = "gnr"
       /\ (pc # "returned" /\ pc' = "returned")
            => should_end_session(mode, turns)]_vars

\* a session that went on to its ceiling after a Client turn made of the
\* fallback text
C13_Witness ==
    /\ pc = "returned"
    /\ Len(turns) = Ceiling(mode)
    /\ \E i \in 1..(Len(turns) - 2) :
          /\ turns[i].role = PATIENT
          /\ turns[i].content = PATIENT_FALLBACK
          /\ turns[i].metadata = "error"

\* a session that went on to its ceiling after a failed Counselor round
C13_CounselorFailureReached ==
    /\ pc = "returned"
    /\ Len(turns) = Ceiling(mode)
    /\ \E i \in 1..(Len(turns) - 2) :
          /\ turns[i].role = COUNSELOR
          /\ turns[i].content = COUNSELOR_APOLOGY
          /\ turns[i].metadata = "error"

IsPrefix(s, t) == Len(s) <= Len(t) /\ SubSeq(t, 1, Len(s)) = s

\* C14: every step of a session leaves the turns it found as a prefix of
\* the turns it leaves (nothing removed, reordered or rewritten), and
\* likewise the summary history.
C14_AppendOnly ==
    [][/\ IsPrefix(turns, turns')
       /\ IsPrefix(summary_history, summary_history')]_vars

\* a session that returned with two generated summaries
C14_Witness ==
    /\ pc = "returned"
    /\ Len(summary_history) = 2
    /\ summary_history[1] # summary_history[2]
    /\ Len(turns) >= SUMMARY_START_SIZE + SUMMARY_BUFFER_SIZE

OriginalHistory == session_data.original_dialogue_history

\* the original list agrees with the final list: same length, same roles,
\* the Client turns equal, and each Counselor reply of the final list is the
\* final text of an audited round whose attempt-0 draft the original list
\* holds at that position
OriginalMatchesFinal ==
    /\ Len(OriginalHistory) = Len(turns)
    /\ \A i \in 1..Len(turns) :
          /\ OriginalHistory[i].role = turns[i].role
          /\ turns[i].role = PATIENT
                => OriginalHistory[i].content = turns[i].content
          /\ i \in CounselorReplies
                => \E k \in 1..Len(Audit) :
                      /\ Audit[k].final_counselor_response = turns[i].content
                      /\ Audit[k].original_counselor_response =
                            OriginalHistory[i].content

\* C15 (as claimed): when run_full_session returns, the original list
\* agrees with the final list, in both modes.
C15_OriginalMatchesFinalAtEnd ==
    pc = "returned" => OriginalMatchesFinal

\* what does hold: in a ClientFirst session without a failed counselor round
\* the two lists agree
C15_HoldsClientFirstWithoutFailure ==
    (pc = "returned" /\ mode = PATIENT_FIRST /\ FailedRounds = {})
       => OriginalMatchesFinal

\* C16 (as claimed): when run_full_session returns, the summary history of
\* the session data handed to persistence is the summary history of
\* DialogueHistory: every generated summary, in order.
C16_SummaryHistoryExported ==
    pc = "returned" => session_data.summary_history = summary_history

\* the turn counts 13, 19, 25, ...
BoundaryCounts == {13 + 6 * k : k \in 0..MaxTurns}

\* C17: at every turn count the trigger is true exactly when the count is
\* one of 13, 19, 25, ..., never below 13; summaries are generated at those
\* counts only, and a call of the summarizer at such a count generates one.
C17_TriggerExactlyAtBoundaries ==
    LET n == Len(turns) IN
    /\ should_summarize(n) <=> n \in BoundaryCounts
    /\ n < 13 => ~should_summarize(n)
    /\ \A i \in 1..Len(summarized_at) : summarized_at[i] \in BoundaryCounts
    /\ (consulted_n = n /\ n \in BoundaryCounts)
          => (summarized_at # <<>> /\ Last(summarized_at) = n)

\* the summarizer was called at, among others, the first three boundaries
C17_Witness ==
    /\ Len(turns) = 25
    /\ consulted_n = 25
    /\ summarized_at = <<13, 19, 25>>

\* C18 (as claimed): a call of the summarizer at the turn count of the
\* previous call, no turn appended in between, generates no summary: it
\* leaves the current summary and the summary history as they are.
C18_SummarizerIdempotent ==
    [][(consulted_n = Len(turns) /\ consulted_n' = consulted_n /\ turns' = turns)
          => /\ summary_history' = summary_history
             /\ current_summary' = current_summary
             /\ summarized_at' = summarized_at]_vars

\* the summarizer generated a summary at every boundary count reached so far
BoundariesSummarized ==
    \A b \in BoundaryCounts :
        b <= Len(turns) => \E i \in 1..Len(summarized_at) : summarized_at[i] = b

\* C19: a call of the summarizer at a count n that triggers nothing, with a
\* summary present, returns the current summary and the turns from
\* start_index = 6 * floor((n-1)/6) + 1 on (13 at n = 16).  When a summary
\* was generated at every boundary so far, that index is the count at which
\* the current summary was generated, so the window holds exactly the turns
\* appended after that count: none of the summarized turns is repeated and
\* none of the later ones is missing.
C19_NonOverlappingWindows ==
    LET n == Len(turns) IN
    (consulted_n = n /\ ~should_summarize(n) /\ current_summary # EMPTY)
       => /\ content.summary = current_summary
          /\ content.window = to_dict_format(SliceFrom(turns, start_index(n)))
          /\ start_index(n) = 6 * ((n - 1) \div 6) + 1
          /\ n = 16 => start_index(n) = 13
          /\ BoundariesSummarized =>
                LET at == Last(summarized_at) IN
                /\ current_summary \in {Summary(at), SUMMARY_FAILED}
                /\ start_index(n) = at
                /\ at + Len(content.window) = n
                /\ \A i \in 1..Len(content.window) :
                      content.window[i] =
                         DictEntry(turns[at + i].role, turns[at + i].content)

\* a call at count 22 after summaries at 13 and 19: the window holds the
\* turns 20, 21 and 22
C19_Witness ==
    /\ Len(turns) = 22
    /\ consulted_n = 22
    /\ summarized_at = <<13, 19>>
    /\ current_summary = Summary(19)
    /\ Len(content.window) = 3
    /\ content.window[1].content = Text(20)

\* a call after a boundary at which the summarizer was not called: the
\* turns between the summary and the window are in neither
C19_GapReached ==
    /\ Len(turns) = 22
    /\ consulted_n = 22
    /\ summarized_at = <<13>>
    /\ current_summary = Summary(13)
    /\ Len(content.window) = 3

\* C20: while the history holds fewer than 13 turns the current summary and
\* the summary history are empty, and what a call of the summarizer returns
\* is the whole history, every turn in order, with no summary.
C20_NoSummaryBelowThreshold ==
    Len(turns) < 13 =>
       /\ current_summary = EMPTY
       /\ summary_history = <<>>
       /\ consulted_n = Len(turns) =>
             /\ content.summary = EMPTY
             /\ Len(content.window) = Len(turns)
             /\ \A i \in 1..Len(turns) :
                   content.window[i] = DictEntry(turns[i].role, turns[i].content)

\* the summarizer was called at count 12, after calls at smaller counts
C20_Witness ==
    /\ Len(turns) = 12
    /\ consulted_n = 12
    /\ Len(content.window) = 12
    /\ content.window[12].content = Text(12)


\* ---------------------------------------------------------- role projection
Projected == identity # NO_IDENTITY
IllFormed(ts) == \E k \in 1..(Len(ts) - 1) : ts[k].role = ts[k + 1].role

\* C21: whatever the history (ill-formed interleavings and third roles
\* included), the identity and the mode, the projection returns a list of
\* labelled messages as long as the history whose i-th message carries the
\* content of the i-th turn.
C21_ProjectionPreservesHistory ==
    Projected =>
        /\ Len(messages) = Len(turns)
        /\ \A k \in 1..Len(turns) :
              /\ messages[k].content = turns[k].content
              /\ messages[k].role \in {USER, ASSISTANT}

C21_Witness ==
    /\ Projected
    /\ Len(turns) = MaxHistory
    /\ IllFormed(turns)
    /\ \E k \in 1..Len(turns) : turns[k].role = SYSTEM

\* the history of n client turns
ClientOnly(n) == History([k \in 1..n |-> PATIENT])

\* C22 as stated: the label at an index depends on the parity of the index,
\* the identity and the mode only, so every history gets, at every index,
\* the label that the history of as many client turns gets there.
C22_LabelByParityAlone ==
    Projected =>
        \A k \in 1..Len(turns) :
            messages[k].role =
                get_openai_messages(mode, ClientOnly(Len(turns)), identity)[k].role

\* a history of three or four turns whose last turn has the role r and sits
\* at an index of the parity of k
Canonical(k, r) ==
    LET n == IF k % 2 = 1 THEN 3 ELSE 4
    IN  [ClientOnly(n) EXCEPT ![n].role = r]

\* C22 as amended: the label at an index depends on the role of the turn at
\* that index, the parity of the index, the identity and the mode only: it
\* is the label of the last turn of the canonical history of that role and
\* parity.
C22_LabelByRoleAndParity ==
    Projected =>
        \A k \in 1..Len(turns) :
            LET canon == Canonical(k, turns[k].role)
            IN  messages[k].role =
                    get_openai_messages(mode, canon, identity)[Len(canon)].role

C22_Witness ==
    /\ Projected
    /\ Len(turns) = MaxHistory
    /\ \E j, k \in 1..Len(turns) :
          /\ j % 2 = k % 2
          /\ turns[j].role # turns[k].role
          /\ messages[j].role # messages[k].role

\* ---------------------------------------------------------------- evaluator
Evaluated == reasoning_result # NOT_CALLED
IsText(output) == output.kind = "text"
NoFieldNames(output) ==
    /\ IsText(output)
    /\ ~Named(output.conclusion)
    /\ ~Named(output.suggestion)
    /\ ~Named(output.stage)
\* the loop goes on to a revision while the cap allows one
TreatedAsReject(result) ==
    \A flag \in 0..(max_modification_attempts - 1) :
        ~loop_exits(Verdict(result), flag)
DefaultResult ==
    StagedResult(NEGATIVE, DEFAULT_SUGGESTION, UNRECOGNIZED, FALSE)

\* C23 as stated: evaluate_response returns a verdict for every outcome,
\* and whenever there is nothing to extract (a text without any of the
\* field names, an empty or missing text, a failed call) the verdict is the
\* Reject with the default suggestion and phase placeholders, not valid,
\* and the loop treats it as a Reject.
C23_NothingExtractedGivesDefaults ==
    Evaluated =>
        /\ reasoning_result.conclusion \in Conclusions
        /\ (~IsText(reasoning_output) \/ NoFieldNames(reasoning_output)) =>
              /\ reasoning_result = DefaultResult
              /\ TreatedAsReject(reasoning_result)

\* C23 as amended: evaluate_response returns a verdict for every outcome; a
\* text without any of the field names (the empty text included) gives the
\* Reject with the default placeholders, not valid; a missing text or a
\* failed call gives a Reject, not valid, with the placeholders of the
\* error branch; the loop treats both as a Reject.
C23_EvaluationNeverRaises ==
    Evaluated =>
        /\ reasoning_result.conclusion \in Conclusions
        /\ reasoning_result.is_valid \in BOOLEAN
        /\ NoFieldNames(reasoning_output) =>
              /\ reasoning_result = DefaultResult
              /\ TreatedAsReject(reasoning_result)
        /\ ~IsText(reasoning_output) =>
              /\ reasoning_result = StagedErrorResult
              /\ TreatedAsReject(reasoning_result)

C23_Witness ==
    /\ Evaluated
    /\ reasoning_output = EMPTY_TEXT
    /\ ~reasoning_result.is_valid

C23_MissingTextReached ==
    Evaluated /\ reasoning_output = MISSING_TEXT

\* what a valid verdict keeps of a strictly matched field
KeepsStrict(field, value, default) ==
    value = IF StrictMatch(field) THEN field.value ELSE default

\* C24 as stated: the verdict is the fallback's (not valid) exactly when
\* none of the three strict extractions succeeded, and a strict match of
\* any field, the phase label alone included, gives a valid verdict with
\* the strictly extracted values.
C24_FallbackIffNoStrictMatch ==
    (Evaluated /\ IsText(reasoning_output)) =>
        LET text == reasoning_output
            anyStrict == \/ StrictMatch(text.conclusion)
                         \/ StrictMatch(text.suggestion)
                         \/ StrictMatch(text.stage)
        IN  /\ reasoning_result.is_valid <=> anyStrict
            /\ anyStrict =>
                  /\ KeepsStrict(text.conclusion, reasoning_result.conclusion, NEGATIVE)
                  /\ KeepsStrict(text.suggestion,
                          reasoning_result.improvement_suggestion,
                          DEFAULT_SUGGESTION)
                  /\ KeepsStrict(text.stage, reasoning_result.current_stage,
                          UNRECOGNIZED)

\* C24 as amended: the verdict is the fallback's (not valid) exactly when
\* neither the verdict nor the improvement suggestion was strictly
\* extracted; a strict match of either gives a valid verdict with every
\* strictly extracted value, the phase label included; a strict match of
\* the phase label alone gives the fallback's verdict, not valid.
C24_FallbackIffNoVerdictOrSuggestion ==
    (Evaluated /\ IsText(reasoning_output)) =>
        LET text == reasoning_output
            strict == \/ StrictMatch(text.conclusion)
                      \/ StrictMatch(text.suggestion)
        IN  /\ reasoning_result.is_valid <=> strict
            /\ strict =>
                  /\ KeepsStrict(text.conclusion, reasoning_result.conclusion, NEGATIVE)
                  /\ KeepsStrict(text.suggestion,
                          reasoning_result.improvement_suggestion,
                          DEFAULT_SUGGESTION)
                  /\ KeepsStrict(text.stage, reasoning_result.current_stage,
                          UNRECOGNIZED)
            /\ ~strict => reasoning_result = Fallback(text)

C24_Witness ==
    /\ Evaluated
    /\ IsText(reasoning_output)
    /\ StrictMatch(reasoning_output.stage)
    /\ ~StrictMatch(reasoning_output.conclusion)
    /\ ~StrictMatch(reasoning_output.suggestion)
    /\ ~reasoning_result.is_valid

\* --------------------------------------------------------- batch processing
\* C25: under concurrent batch processing, overlapping batch runs over the
\* same folder included, no input file has a session run for it more than
\* once.
C25_ProcessedAtMostOnce ==
    \A f \in Files : sessions_run[f] <= 1

\* the discipline C25 bases this on: from the moment a worker's file passed
\* the ledger check until the file is marked, the lock is held for it
C25_CheckThenMarkUnderLock ==
    \A w \in Workers :
        file_state[w] \in {"queued", "session", "returned"} =>
            processing_lock = w

\* one batch run alone runs at most one session for a file
OnlyFirstRun ==
    \A w \in Workers : RunOf(w) # 1 => file_state[w] = "unlisted"
C25_OneRunProcessesOnce ==
    OnlyFirstRun => \A f \in Files : sessions_run[f] <= 1

C25_SingleRunCompleted ==
    /\ OnlyFirstRun
    /\ \A f \in Files : file_state[<<1, f>>] = "done" /\ sessions_run[f] = 1

\* --------------------------------------------------------------- LLM client
InRetryPath ==
    request_pc \in {"retry_call", "retry_except"}
        \/ (/\ request_pc \in {"returned", "raised"}
            /\ request.available
            /\ ~(request.model = REASONING_MODEL /\ request.return_reasoning))
InReasoningPath ==
    request.available /\ request.model = REASONING_MODEL
        /\ request.return_reasoning /\ request_pc # "dispatch"
Failures(calls) == {k \in 1..Len(calls) : calls[k] = REMOTE_FAILED}
AllFailed(calls) == Failures(calls) = 1..Len(calls)
RECURSIVE Doubled(_)
Doubled(k) == IF k = 0 THEN RETRY_DELAY ELSE 2 * Doubled(k - 1)

\* C26 as stated: the reasoning request makes a bounded number of remote
\* attempts, the bound of generate, and then returns or fails.
C26_ReasoningAttemptsBounded ==
    InReasoningPath => Len(remote_calls) <= MAX_RETRIES

\* the reasoning request ends, also when the remote service keeps failing
C26_ReasoningTerminates ==
    <>(request_pc \in {"returned", "raised"})

\* C27: _make_request_with_retry calls the remote service at most
\* MAX_RETRIES times; it returns the answer of the first call that
\* succeeded, as its last call; after the k-th failed call with attempts
\* left it has slept RETRY_DELAY, 2 * RETRY_DELAY, ... (k delays, each the
\* double of the one before); and it raises exactly when MAX_RETRIES calls
\* were made and all of them failed.
C27_BoundedRetry ==
    InRetryPath =>
        /\ Len(remote_calls) <= MAX_RETRIES
        /\ \A k \in 1..Len(sleeps) : sleeps[k] = Doubled(k - 1)
        /\ request_pc = "retry_call" =>
              /\ AllFailed(remote_calls)
              /\ Len(sleeps) = Len(remote_calls)
        /\ request_pc = "returned" =>
              /\ Failures(remote_calls) = 1..(Len(remote_calls) - 1)
              /\ completion = Returned(Last(remote_calls).content)
              /\ Len(sleeps) = Len(remote_calls) - 1
        /\ request_pc = "raised" =>
              /\ Len(remote_calls) = MAX_RETRIES
              /\ AllFailed(remote_calls)
              /\ Len(sleeps) = MAX_RETRIES - 1
        /\ (Len(remote_calls) = MAX_RETRIES /\ AllFailed(remote_calls)) =>
              request_pc \in {"retry_except", "raised"}

C27_Witness ==
    /\ InRetryPath
    /\ request_pc = "raised"
    /\ sleeps = <<RETRY_DELAY, 2 * RETRY_DELAY>>

C27_ReturnedAfterFailures ==
    /\ InRetryPath
    /\ request_pc = "returned"
    /\ Len(remote_calls) = MAX_RETRIES

\* C29: the reasoning request returns the first output that differs from
\* the timeout text: what it returns is never the timeout text, and every
\* call before the last either failed or answered with the timeout text.
C29_SentinelIsRetried ==
    (InReasoningPath /\ request_pc = "returned") =>
        /\ completion.content # TIMEOUT_SENTINEL
        /\ \A k \in 1..(Len(remote_calls) - 1) :
              remote_calls[k] \in {REMOTE_FAILED, Answered(TIMEOUT_SENTINEL)}

\* what the reasoning request does: it repeats the call for as long as the
\* call raises, and returns the first answer, the timeout text included
C29_FirstAnswerIsReturned ==
    (InReasoningPath /\ request_pc = "returned" /\ Len(remote_calls) < MaxCalls)
        => /\ Failures(remote_calls) = 1..(Len(remote_calls) - 1)
           /\ completion = Returned(Last(remote_calls).content)

\* ------------------------------------------------- summary at the threshold
SummarizedAtStart ==
    \E k \in 1..Len(summarized_at) :
        /\ summarized_at[k] = SUMMARY_START_SIZE
        /\ summary_history[k] \in {Summary(SUMMARY_START_SIZE), SUMMARY_FAILED}

\* C28: in a session of either mode, once a turn beyond the
\* SUMMARY_START_SIZE-th is committed, the summary over the first
\* SUMMARY_START_SIZE turns was generated when the history had exactly that
\* many turns, and it was stored as the current summary and appended to the
\* summary history.
C28_SummaryAtStartThreshold ==
    Len(turns) > SUMMARY_START_SIZE =>
        /\ SummarizedAtStart
        /\ current_summary # EMPTY

\* in a ClientFirst session with a ceiling above the threshold it does hold
C28_HoldsClientFirst ==
    (mode = PATIENT_FIRST /\ Len(turns) > SUMMARY_START_SIZE) =>
        /\ SummarizedAtStart
        /\ current_summary # EMPTY

C28_ClientFirstBeyondThreshold ==
    /\ mode = PATIENT_FIRST
    /\ Len(turns) > SUMMARY_START_SIZE
    /\ SummarizedAtStart

\* ------------------------------------------------------------ audit counting
RECURSIVE Flatten(_)
Flatten(lists) ==
    IF lists = <<>> THEN <<>> ELSE Head(lists) \o Flatten(Tail(lists))

\* the verdicts of the rounds of the audit, in order
PerRoundVerdicts ==
    Flatten([i \in 1..Len(Audit) |-> Audit[i].reasoning_history])

\* the revision attempts of the rounds of the audit, in order: in a round
\* every verdict but the last led to an attempt, numbered from 1, carrying
\* the suggestion of that verdict
AttemptsOf(verdicts) ==
    [j \in 1..(Len(verdicts) - 1) |->
        [attempt_number |-> j,
         improvement_suggestion |-> verdicts[j].improvement_suggestion]]
PerRoundAttempts ==
    Flatten([i \in 1..Len(Audit) |-> AttemptsOf(Audit[i].reasoning_history)])

\* C30: a completed counselor round hands over one verdict more than it has
\* revision attempts, between 1 and max_modification_attempts + 1 of them,
\* and so does every round of the audit; and at every point of the session
\* the flat lists of verdicts and of revision attempts are the in-order
\* concatenations of the rounds' lists.
C30_AuditCounting ==
    /\ LoopCompleted =>
          /\ Len(agent_response.reasoning_history)
                = Len(agent_response.modification_history) + 1
          /\ Len(agent_response.reasoning_history)
                \in 1..(max_modification_attempts + 1)
    /\ \A i \in 1..Len(Audit) :
          Len(Audit[i].reasoning_history) \in 1..(max_modification_attempts + 1)
    /\ session_data.reasoning_history = PerRoundVerdicts
    /\ session_data.modification_history = PerRoundAttempts

\* a session with a round accepted at once before and after a revised round
C30_Witness ==
    /\ Len(Audit) >= 3
    /\ \E i, j, k \in 1..Len(Audit) :
          /\ i < j /\ j < k
          /\ Len(Audit[i].reasoning_history) = 1
          /\ Len(Audit[j].reasoning_history) > 1
          /\ Len(Audit[k].reasoning_history) = 1
    /\ session_data.modification_history # <<>>

\* one round that used up its cap, stored in the audit
C30_ExhaustedRoundReached ==
    /\ Len(Audit) = 1
    /\ Len(Audit[1].reasoning_history) = max_modification_attempts + 1
    /\ max_modification_attempts = MAX_MODIFICATION_ATTEMPTS
    /\ Len(session_data.modification_history) = MAX_MODIFICATION_ATTEMPTS

\* C31: the two implementations of the Revision Loop agree: given the same
\* cap and the same verdicts, process_modification_cycle makes as many
\* evaluations as generate_response made and creates the same records
\* (attempt numbers and suggestions), also when a conclusion holds neither
\* token.
CycleOfThisRound ==
    /\ pc = "gnr_store"
    /\ agent_response.has_reasoning
    /\ cycle # NOT_CALLED
    /\ cycle.results = reasoning_history
Entries(records) == [k \in 1..Len(records) |-> ModificationEntry(records[k])]
LoopsAgree ==
    /\ cycle.kind = "returned"
    /\ Len(cycle.reasoning_history) = Len(agent_response.reasoning_history)
    /\ Entries(cycle.modification_history) = agent_response.modification_history
C31_LoopsAgree == CycleOfThisRound => LoopsAgree

\* as long as every conclusion holds one of the two tokens they do agree
TokenVerdictsOnly ==
    \A k \in 1..Len(reasoning_history) :
        reasoning_history[k].conclusion \in {AFFIRMATIVE, NEGATIVE}
C31_LoopsAgreeOnTokenVerdicts ==
    (CycleOfThisRound /\ TokenVerdictsOnly) => LoopsAgree
C31_RevisedCycleReached ==
    /\ CycleOfThisRound
    /\ TokenVerdictsOnly
    /\ Len(cycle.modification_history) >= 2

\* C32: on a history whose roles are client and counselor only, well-formed
\* or not, a turn is labelled assistant exactly when its role is the role of
\* the requesting identity, in either mode: the two projections return the
\* same sequence, and the two identities get opposite labels at every index.
TwoPartyHistory(ts) ==
    \A k \in 1..Len(ts) : ts[k].role \in {COUNSELOR, PATIENT}
OwnRole(id) == IF id = DOCTOR THEN COUNSELOR ELSE PATIENT
OtherIdentity(id) == CHOOSE other \in Identities : other # id
C32_TwoPartyLabelFollowsRole ==
    (Projected /\ TwoPartyHistory(turns)) =>
        /\ \A k \in 1..Len(turns) :
              (messages[k].role = ASSISTANT) <=>
                  (turns[k].role = OwnRole(identity))
        /\ to_openai_format(turns, identity)
              = to_doctor_first_format(turns, identity)
        /\ \A k \in 1..Len(turns) :
              get_openai_messages(mode, turns, OtherIdentity(identity))[k].role
                  # messages[k].role

C32_Witness ==
    /\ Projected
    /\ mode = DOCTOR_FIRST
    /\ TwoPartyHistory(turns)
    /\ IllFormed(turns)
    /\ Len(turns) = MaxHistory
    /\ turns[1].role = PATIENT

\* C33: a file whose session a call of process_patient_folder ran
\* successfully is in the ledger under the name the skip check looks up, so
\* a later call over the same folder skips it: no session is run for a file
\* whose session already succeeded.
C33_SucceededFileIsSkipped ==
    \A w \in Workers :
        FileOf(w) \in succeeded => file_state[w] \notin {"session"}

\* what the ledger holds after a successful session is the base name
C33_LedgerHoldsBaseNames ==
    /\ \A f \in succeeded : BaseName(f) \in processed_files
    /\ \A f \in Files : FileName(f) \notin processed_files
C33_NeverSkipped == \A w \in Workers : file_state[w] # "skipped"
C33_SecondRunFinished ==
    /\ \A r \in BatchRuns : Finished(r)
    /\ succeeded = Files

\* C34: in the sequential and in the concurrent batch a name enters the
\* ledger only if the file's session ran to completion without an error
\* result; a file whose run returned an error stays unmarked.
C34_MarkedOnlyOnSuccess ==
    \A f \in Files :
        (FileName(f) \in processed_files \/ BaseName(f) \in processed_files)
            => f \in succeeded
C34_ErrorRunMarked ==
    \E f \in Files : f \notin succeeded /\ FileName(f) \in processed_files

\* C35: a summary call that fails at a trigger point leaves the current
\* summary and the summary history as they were, so the two only ever hold
\* text that a successful summary generation returned.
C35_FailedSummaryNotStored ==
    /\ current_summary # SUMMARY_FAILED
    /\ \A k \in 1..Len(summary_history) : summary_history[k] # SUMMARY_FAILED

\* the failure text is stored, and a later round goes on with it
C35_RoundProceedsOnFailureText ==
    /\ current_summary = SUMMARY_FAILED
    /\ Last(summary_history) = SUMMARY_FAILED
    /\ Len(turns) > Last(summarized_at)

\* C36: after any sequence of get, put and clear on a cache whose max_size
\* is at least one, the cache holds at most max_size entries, access_order
\* holds exactly the cached keys, each once, and a put of a new key into a
\* full cache evicts the key that was least recently read by a hit or
\* written, and nothing else.
CacheConsistent ==
    /\ Cardinality(CachedKeys(cache)) <= max_size
    /\ {access_order[i] : i \in 1..Len(access_order)} = CachedKeys(cache)
    /\ Len(access_order) = Cardinality(CachedKeys(cache))
LeastRecentlyUsed ==
    CHOOSE k \in CachedKeys(cache) :
        \A j \in CachedKeys(cache) : last_use[k] <= last_use[j]
PutIntoFullCache ==
    /\ Cardinality(CachedKeys(cache)) = max_size
    /\ CachedKeys(cache') \ CachedKeys(cache) # {}
C36_CacheConsistency ==
    [][/\ CacheConsistent
       /\ CacheConsistent'
       /\ PutIntoFullCache =>
             CachedKeys(cache) \ CachedKeys(cache') = {LeastRecentlyUsed}]_vars

\* key 2 was written after key 1 and evicted all the same, key 1 having
\* been read since
C36_Witness ==
    /\ max_size = 2
    /\ access_order = <<1, 3>>
    /\ cache[2] = NO_ENTRY
    /\ last_use[1] = 3
    /\ last_use[2] = 2
    /\ last_use[3] = 4

\* C37: after any sequence of create_session, end_session and
\* cleanup_sessions the list of active sessions holds no id twice and only
\* ids of created sessions, and straight after end_session(id) the id is not
\* among those get_active_sessions reports.
NoDuplicates(active) ==
    \A i, j \in 1..Len(active) : active[i] = active[j] => i = j
OnlyCreated(registry, active) ==
    \A i \in 1..Len(active) : registry[active[i]] # NO_SESSION
C37_ActiveSessionsBookkeeping ==
    [][/\ NoDuplicates(active_sessions')
       /\ OnlyCreated(sessions', active_sessions')
       /\ \A session_id \in SessionIds :
             EndSession(session_id) =>
                ~InOrder(get_active_sessions(active_sessions'), session_id)]_vars

\* the active ids are ids of created sessions, whatever the calls
C37_ActiveIdsWereCreated == OnlyCreated(sessions, active_sessions)
\* an id created twice is listed twice, and still once after end_session
C37_DuplicateReached ==
    /\ Len(active_sessions) = MaxActive
    /\ ~NoDuplicates(active_sessions)

====
